---------------------------- MODULE Spec2Model ----------------------------
(***************************************************************************)
(* A model of src/src/layer.cu: one Layer object of one of the eight       *)
(* variants, driven by a single caller thread through forward, backward,   *)
(* the three update rules and get_loss / get_accuracy.                     *)
(*                                                                         *)
(* Values.  A float is modelled on the integer grid: an arithmetic result  *)
(* that is off the grid is rounded toward zero (TDiv, ISqrt), as a float   *)
(* operation rounds to a representable value.  A hyper-parameter in (0,1)  *)
(* is a fraction num/den.                                                  *)
(* Pointers.  A Blob<float>* of the caller is [id, n]: the identity of the *)
(* tensor and its batch size; NullPtr is nullptr.  A Blob owned by the     *)
(* layer is [n, sz, d]: batch size, per-sample size c*h*w and the flat     *)
(* element buffer; NullBlob is nullptr.  A parameter Blob is its flat      *)
(* element sequence, << >> is nullptr.  A scratch device buffer without    *)
(* modelled contents is its size in elements, 0 is nullptr; layer.live     *)
(* counts the scratch allocations made by cudaMalloc and not yet freed,    *)
(* layer.nSelect the runs of Conv2D::set_workspace: two workspace buffers  *)
(* of one size are the same allocation iff nSelect is the same.            *)
(***************************************************************************)
EXTENDS Integers, Sequences, FiniteSets, TLC

(***************************************************************************)
(* Bounds of the model.                                                    *)
(***************************************************************************)
MaxForward == 2
MaxUpdate == 1

(***************************************************************************)
(* Construction parameters of the modelled layer and of its input.         *)
(***************************************************************************)
\* c*h*w of the input tensors of the network (c = InSize, h = w = 1): input_size_ of
\* Linear, the channels of Conv2D and FusedBatchNormalization
InSize == 2
\* Linear::output_size_ / Conv2D::out_channels_ (kernel 1, stride 1, padding 0)
OutSize == 1

\* the class indexes the loop of Softmax::get_accuracy runs over: for (i = 1; i < 10; i++)
NumClasses == 10

Kinds == {"Linear", "Activation", "Softmax", "Conv2D", "Pooling", "LRN", "Dropout", "FBN"}
ParamKinds == {"Linear", "Conv2D", "FBN"}

(***************************************************************************)
(* Arithmetic on the grid.                                                 *)
(***************************************************************************)
Abs(a) == IF a < 0 THEN -a ELSE a

TDiv(a, b) == IF (a >= 0) = (b > 0) THEN Abs(a) \div Abs(b) ELSE -(Abs(a) \div Abs(b))

ISqrt(a) == CHOOSE r \in 0..a : r * r <= a /\ (r + 1) * (r + 1) > a

RECURSIVE IPow(_, _)
IPow(b, e) == IF e = 0 THEN 1 ELSE b * IPow(b, e - 1)

RECURSIVE SumTo(_, _)
\* f[0] + ... + f[k-1]
SumTo(f, k) == IF k = 0 THEN 0 ELSE f[k - 1] + SumTo(f, k - 1)

Fill(len, v) == [i \in 1..len |-> v]

\* element (b, i) of a flat buffer with per-sample size sz, both 0-based
At(d, sz, b, i) == d[b * sz + i + 1]

(***************************************************************************)
(* Blobs.                                                                  *)
(***************************************************************************)
NullPtr == [id |-> 0, n |-> 0]
NullBlob == [n |-> 0, sz |-> 0, d |-> << >>]

\* new Blob<float>(n, sz): the element buffer is not initialised
NewBlob(n, sz, u) == [n |-> n, sz |-> sz, d |-> Fill(n * sz, u)]

\* Blob::reset(shape): reallocates only if the shape differs
Reset(b, n, sz, u) == IF b.n = n /\ b.sz = sz THEN b ELSE NewBlob(n, sz, u)

(***************************************************************************)
(* The caller's tensors.  Tensor id of batch size n holds fixed data, so   *)
(* two ids of one batch size are two tensor objects with different         *)
(* contents.                                                               *)
(***************************************************************************)
BatchSizes == {1, 2}
TensorIds == {1, 2}
\* tensors of another per-sample shape, and tensors of one value per class
WideIds == {3}
ClassIds == {4, 5, 6}
Ptrs == [id : TensorIds \cup WideIds \cup ClassIds, n : BatchSizes]

\* c*h*w of the tensor behind pointer p
PtrSz(p) == IF p.id \in ClassIds THEN NumClasses ELSE IF p.id \in WideIds THEN InSize + 1 ELSE InSize

\* the input tensor behind pointer p: elements in -1..1
InputData(p) ==
    [k \in 1..(p.n * PtrSz(p)) |-> ((p.id + ((k - 1) \div PtrSz(p)) + ((k - 1) % PtrSz(p))) % 3) - 1]

\* the output-gradient tensor behind pointer p, of per-sample size sz: elements -2 or 2
GradData(p, sz) == [k \in 1..(p.n * sz) |-> 4 * ((p.id + ((k - 1) \div sz) + ((k - 1) % sz)) % 2) - 2]

\* the classes row b of the target behind pointer p marks with a 1: one class, or
\* for tensor 6 two classes (a target with two equal largest values)
TargetClasses(p, b, sz) ==
    IF p.id = 6 THEN {(p.id + b) % 3, ((p.id + b) % 3) + 5}
    ELSE IF p.id \in ClassIds THEN {(2 * p.id + 2 + 2 * b) % 3}
    ELSE {(p.id + b) % sz}

\* the target behind pointer p
TargetData(p, sz) ==
    [k \in 1..(p.n * sz) |-> IF (k - 1) % sz \in TargetClasses(p, (k - 1) \div sz, sz) THEN 1 ELSE 0]


(***************************************************************************)
(* State.                                                                  *)
(*   kind, freeze_, load_pretrain_, gradient_stop_ : the variant and its   *)
(*       configuration flags, fixed at construction                        *)
(*   optimizer : the update rule the caller applies to this layer          *)
(*   pool   : the tensors the caller passes to this layer                   *)
(*   layer  : the fields of the Layer object                               *)
(*   files  : the two parameter files '<name>.bin' (w) and                 *)
(*            '<name>.bias.bin' (b); << >> is a missing file               *)
(*   writable : for each of the two files, whether it can be opened for    *)
(*            writing                                                      *)
(*   status : "running", "exited" (exit(-1)), "aborted" (assert) or        *)
(*            "crashed" (a null pointer dereferenced)                      *)
(*   junk   : the value uninitialised memory reads as                      *)
(*   nInit, nLoad : calls of init_weight_bias / load_parameter made by     *)
(*            forward; nForward, nUpdate: calls made; sameBatch: every     *)
(*            forward call so far had the same batch size                  *)
(*   last   : the latest call: its name, argument, the layer before it,    *)
(*            whether its computation ran, and what it returned            *)
(***************************************************************************)
VARIABLES kind, freeze_, load_pretrain_, gradient_stop_, optimizer, pool, layer, files, writable,
          status, junk, nInit, nLoad, nForward, nUpdate, sameBatch, last, grid, call

vars == <<kind, freeze_, load_pretrain_, gradient_stop_, optimizer, pool, layer, files, writable,
          status, junk, nInit, nLoad, nForward, nUpdate, sameBatch, last, grid, call>>

\* what the calls on a layer leave alone; grid is the kernel launch in flight, which
\* only the launch and the steps of its threads change; call is the call followed
\* statement by statement, which only its own steps change
config == <<kind, freeze_, load_pretrain_, gradient_stop_, optimizer, pool, junk, writable, grid, call>>

\* no kernel launch in flight
NoGrid == [launched |-> FALSE, N |-> 0, gridDim |-> 0, blockDim |-> 0,
           lr |-> 0, eps |-> 0, idx |-> << >>, by |-> << >>, cnt |-> << >>]

\* the element counts of weights_ and biases_ of variant k
WLen(k) == IF k \in {"Linear", "Conv2D"} THEN InSize * OutSize ELSE IF k = "FBN" THEN InSize ELSE 0

BLen(k) == IF k \in {"Linear", "Conv2D"} THEN OutSize ELSE IF k = "FBN" THEN InSize ELSE 0

\* c*h*w of the output of variant k for the input x: output_size_ / out_channels_
\* for Linear and Conv2D, input->shape() for the others
OutSz(k, x) == IF k \in {"Linear", "Conv2D"} THEN OutSize ELSE PtrSz(x)

\* the fields of a Layer after its constructor
NewLayer == [input_ |-> NullPtr, grad_output_ |-> NullPtr, batch_size_ |-> 0,
             output_ |-> NullBlob, grad_input_ |-> NullBlob,
             weights_ |-> << >>, biases_ |-> << >>,
             weights_m_ |-> << >>, weights_v_ |-> << >>,
             biases_m_ |-> << >>, biases_v_ |-> << >>,
             grad_weights_ |-> << >>, grad_biases_ |-> << >>,
             d_one_vec |-> 0, d_workspace |-> 0, workspace_size |-> 0, conv_algo_ |-> 0,
             states_ |-> 0, m_pReserve_ |-> << >>,
             resultSaveMean_ |-> << >>, resultSaveInvVariance_ |-> << >>,
             nSelect |-> 0, live |-> 0]

NoCall == [op |-> "none", x |-> NullPtr, pre |-> NewLayer, computed |-> FALSE,
           ret |-> "none", val |-> 0, hp |-> << >>]

\* no call followed statement by statement yet
NoCallStep == [fn |-> "none", pc |-> 0, synced |-> FALSE, writes |-> 0, pending |-> 0,
               x |-> NullPtr, seed |-> 0, pre |-> NewLayer, expect |-> NewLayer]

\* a read of element k of a device buffer; past its end the read is of foreign memory
Rd(d, k) == IF k \in 1..Len(d) THEN d[k] ELSE junk

\* a write of vals into the buffer of blob b, as far as the buffer reaches
WriteInto(b, vals) == [b EXCEPT !.d = [k \in 1..Len(b.d) |-> IF k <= Len(vals) THEN vals[k] ELSE b.d[k]]]

(***************************************************************************)
(* Parameter files: Blob::file_read / Blob::file_write.                    *)
(***************************************************************************)
\* file_read into a buffer of len elements: nonzero on a missing or mis-sized file
file_read_rc(f, len) == IF f = << >> \/ Len(f) # len THEN 1 ELSE 0

\* load_parameter returning -1 for a failed read of either file
load_parameter_one_code(l) ==
    IF file_read_rc(files.w, Len(l.weights_)) # 0 THEN [l |-> l, rc |-> -1]
    ELSE LET l1 == [l EXCEPT !.weights_ = files.w]
         IN  IF file_read_rc(files.b, Len(l.biases_)) # 0 THEN [l |-> l1, rc |-> -1]
             ELSE [l |-> [l1 EXCEPT !.biases_ = files.b], rc |-> 0]

\* Layer::load_parameter: [l: the layer after it, rc: its return value]
load_parameter(l) ==
    IF file_read_rc(files.w, Len(l.weights_)) # 0 THEN [l |-> l, rc |-> -1]
    ELSE LET l1 == [l EXCEPT !.weights_ = files.w]
         IN  IF file_read_rc(files.b, Len(l.biases_)) # 0 THEN [l |-> l1, rc |-> -2]
             ELSE [l |-> [l1 EXCEPT !.biases_ = files.b], rc |-> 0]

\* file_write of a buffer: nonzero when the file cannot be opened for writing
file_write_rc(ok) == IF ok THEN 0 ELSE 1

\* save_parameter with the two writes in the other order
save_parameter_biases_first(l) ==
    LET f1 == IF l.biases_ # << >> /\ file_write_rc(writable.b) = 0
              THEN [files EXCEPT !.b = l.biases_] ELSE files
    IN  IF l.biases_ # << >> /\ file_write_rc(writable.b) # 0 THEN [f |-> files, rc |-> -2]
        ELSE IF l.weights_ # << >> /\ file_write_rc(writable.w) # 0 THEN [f |-> f1, rc |-> -1]
        ELSE [f |-> IF l.weights_ # << >> THEN [f1 EXCEPT !.w = l.weights_] ELSE f1, rc |-> 0]

\* save_parameter with each blob written to the other blob's file
save_parameter_swapped(l) ==
    IF l.weights_ # << >> /\ file_write_rc(writable.w) # 0 THEN [f |-> files, rc |-> -1]
    ELSE LET f1 == IF l.weights_ # << >> THEN [files EXCEPT !.b = l.weights_] ELSE files
         IN  IF l.biases_ # << >> /\ file_write_rc(writable.b) # 0 THEN [f |-> f1, rc |-> -2]
             ELSE [f |-> IF l.biases_ # << >> THEN [f1 EXCEPT !.w = l.biases_] ELSE f1, rc |-> 0]

\* Layer::save_parameter: [f: the files after it, rc: its return value]
save_parameter(l) ==
    IF l.weights_ # << >> /\ file_write_rc(writable.w) # 0 THEN [f |-> files, rc |-> -1]
    ELSE LET f1 == IF l.weights_ # << >> THEN [files EXCEPT !.w = l.weights_] ELSE files
         IN  IF l.biases_ # << >> /\ file_write_rc(writable.b) # 0 THEN [f |-> f1, rc |-> -2]
             ELSE [f |-> IF l.biases_ # << >> THEN [f1 EXCEPT !.b = l.biases_] ELSE f1, rc |-> 0]

(***************************************************************************)
(* Layer::init_weight_bias.                                                *)
(***************************************************************************)
\* float range = sqrt(6.f / input_->size())
InitRange == ISqrt(TDiv(6, InSize))

\* a draw of a distribution over (-2 * range, 2 * range)
Draw_twice_range(seed, i) == 2 * (((seed + i) % (2 * InitRange + 1)) - InitRange)

\* the i-th draw of uniform_real_distribution(-range, range) from the generator seeded with seed
Draw(seed, i) == ((seed + i) % (2 * InitRange + 1)) - InitRange

init_weight_bias(l, seed) ==
    IF l.weights_ = << >> \/ l.biases_ = << >> THEN l
    ELSE [l EXCEPT !.weights_ = [i \in 1..Len(l.weights_) |-> Draw(seed, i)],
                   !.biases_ = Fill(Len(l.biases_), 0),
                   !.weights_m_ = Fill(Len(l.weights_m_), 0),
                   !.weights_v_ = Fill(Len(l.weights_v_), 0),
                   !.biases_m_ = Fill(Len(l.biases_m_), 0),
                   !.biases_v_ = Fill(Len(l.biases_v_), 0)]

(***************************************************************************)
(* The lazy set-up shared by the forward methods.                          *)
(***************************************************************************)
\* if (weights_ == nullptr): the six parameter blobs are created, uninitialised
AllocParams(l) ==
    IF l.weights_ # << >> THEN l
    ELSE [l EXCEPT !.weights_ = Fill(WLen(kind), junk), !.biases_ = Fill(BLen(kind), junk),
                   !.weights_m_ = Fill(WLen(kind), junk), !.weights_v_ = Fill(WLen(kind), junk),
                   !.biases_m_ = Fill(BLen(kind), junk), !.biases_v_ = Fill(BLen(kind), junk)]

\* NeedsSetup without its test: the set-up branch taken on every call
NeedsSetup_always(l, x) == TRUE

\* if (input_ == nullptr || batch_size_ != input->n())
NeedsSetup(l, x) == l.input_ = NullPtr \/ l.batch_size_ # x.n

\* input_ = input; batch_size_ = input->n(); output_ = new Blob / output_->reset
BindInput(l, x) ==
    [l EXCEPT !.input_ = x, !.batch_size_ = x.n,
              !.output_ = IF l.output_ = NullBlob THEN NewBlob(x.n, OutSz(kind, x), junk)
                          ELSE Reset(l.output_, x.n, OutSz(kind, x), junk)]

\* LoadsPretrained without the freeze test
LoadsPretrained_frozen_too == load_pretrain_

\* if (load_pretrain_ && !freeze_)
LoadsPretrained == load_pretrain_ /\ ~freeze_

\* else if (!freeze_)
InitsFresh == ~load_pretrain_ /\ ~freeze_

\* ExitsOnLoadFailure with the return value of load_parameter ignored
ExitsOnLoadFailure_never(rc) == FALSE

\* if (load_parameter()) { ...; exit(-1); }
ExitsOnLoadFailure(rc) == rc # 0

\* the parameter materialisation at the end of the set-up branch:
\* [l: the layer, st: the process status, di, dl: init / load calls made]
Materialize(l, seed) ==
    IF LoadsPretrained
    THEN LET r == load_parameter(l)
         IN  [l |-> r.l, st |-> IF ExitsOnLoadFailure(r.rc) THEN "exited" ELSE "running",
              di |-> 0, dl |-> 1]
    ELSE IF InitsFresh
    THEN [l |-> init_weight_bias(l, seed), st |-> "running", di |-> 1, dl |-> 0]
    ELSE [l |-> l, st |-> "running", di |-> 0, dl |-> 0]


(***************************************************************************)
(* Linear (Dense).                                                         *)
(***************************************************************************)
\* the two cublasSgemm calls of Linear::forward: output = weights^T * input + biases * one^T
Linear_output(l) ==
    LET X == InputData(l.input_)
    IN  [k \in 1..(l.batch_size_ * OutSize) |->
            LET b == (k - 1) \div OutSize
                o == (k - 1) % OutSize
            IN  SumTo([i \in 0..(InSize - 1) |-> l.weights_[o * InSize + i + 1] * Rd(X, b * InSize + i + 1)], InSize)
                + l.biases_[o + 1]]

\* cudaFree(d_one_vec) if set, then cudaMalloc of batch_size_ floats
Linear_one_vec(l) ==
    [l EXCEPT !.d_one_vec = l.batch_size_,
              !.live = IF l.d_one_vec # 0 THEN l.live ELSE l.live + 1]

\* Linear::forward: [l, st, di, dl, computed]
Linear_forward(l, x, seed) ==
    LET l0 == AllocParams(l)
        setup == NeedsSetup(l0, x)
        m == IF setup THEN Materialize(Linear_one_vec(BindInput(l0, x)), seed)
             ELSE [l |-> l0, st |-> "running", di |-> 0, dl |-> 0]
    IN  IF m.st # "running" THEN [l |-> m.l, st |-> m.st, di |-> m.di, dl |-> m.dl, computed |-> FALSE]
        ELSE [l |-> [m.l EXCEPT !.output_ = WriteInto(m.l.output_, Linear_output(m.l))],
              st |-> m.st, di |-> m.di, dl |-> m.dl, computed |-> TRUE]

\* if (grad_input_ == nullptr || batch_size_ != grad_output->n())
NeedsGradSetup(l, g) == l.grad_input_ = NullBlob \/ l.batch_size_ # g.n

\* grad_output_ = grad_output; grad_input_ = new Blob(input_->shape()) / grad_input_->reset(input_->shape())
BindGrad(l, g) ==
    [l EXCEPT !.grad_output_ = g,
              !.grad_input_ = IF l.grad_input_ = NullBlob THEN NewBlob(l.input_.n, PtrSz(l.input_), junk)
                              ELSE Reset(l.grad_input_, l.input_.n, PtrSz(l.input_), junk)]

\* if (!gradient_stop_)
WritesGradInput == ~gradient_stop_

\* db = dy * one (cublasSgemv), from the cached grad_output_
Linear_grad_biases(l) ==
    LET DY == GradData(l.grad_output_, OutSize)
    IN  [o1 \in 1..OutSize |->
            SumTo([b \in 0..(l.batch_size_ - 1) |-> Rd(DY, b * OutSize + o1)], l.batch_size_)]

\* dw = x * dy^T (cublasSgemm), from the cached input_ and grad_output_
Linear_grad_weights(l) ==
    LET X == InputData(l.input_)
        DY == GradData(l.grad_output_, OutSize)
    IN  [k \in 1..(InSize * OutSize) |->
            LET o == (k - 1) \div InSize
                i == (k - 1) % InSize
            IN  SumTo([b \in 0..(l.batch_size_ - 1) |->
                          Rd(X, b * InSize + i + 1) * Rd(DY, b * OutSize + o + 1)], l.batch_size_)]

\* dx = W * dy (cublasSgemm), from the cached grad_output_
Linear_grad_input(l) ==
    LET DY == GradData(l.grad_output_, OutSize)
    IN  [k \in 1..(l.batch_size_ * InSize) |->
            LET b == (k - 1) \div InSize
                i == (k - 1) % InSize
            IN  SumTo([o \in 0..(OutSize - 1) |->
                          l.weights_[o * InSize + i + 1] * Rd(DY, b * OutSize + o + 1)], OutSize)]

\* Linear::backward: the layer after it
Linear_backward(g) ==
    LET l0 == IF layer.grad_weights_ = << >>
              THEN [layer EXCEPT !.grad_weights_ = Fill(Len(layer.weights_), junk),
                                 !.grad_biases_ = Fill(Len(layer.biases_), junk)]
              ELSE layer
        l1 == IF NeedsGradSetup(l0, g) THEN BindGrad(l0, g) ELSE l0
        l2 == [l1 EXCEPT !.grad_biases_ = Linear_grad_biases(l1),
                         !.grad_weights_ = Linear_grad_weights(l1)]
    IN  IF WritesGradInput
        THEN [l2 EXCEPT !.grad_input_ = WriteInto(l2.grad_input_, Linear_grad_input(l2))]
        ELSE l2


(***************************************************************************)
(* Activation (mode CUDNN_ACTIVATION_RELU).                                *)
(***************************************************************************)
\* cudnnActivationForward over input_desc_, reading the argument's buffer
Activation_output(l, x) ==
    LET X == InputData(x)
    IN  [k \in 1..(l.input_.n * PtrSz(l.input_)) |-> IF Rd(X, k) > 0 THEN Rd(X, k) ELSE 0]

Activation_forward(l, x) ==
    LET l1 == IF NeedsSetup(l, x) THEN BindInput(l, x) ELSE l
    IN  [l1 EXCEPT !.output_ = WriteInto(l1.output_, Activation_output(l1, x))]

\* cudnnActivationBackward: dx = dy where the cached input is positive
Activation_grad_input(l, g) ==
    LET X == InputData(l.input_)
        DY == GradData(g, PtrSz(g))
    IN  [k \in 1..(l.input_.n * PtrSz(l.input_)) |-> IF Rd(X, k) > 0 THEN Rd(DY, k) ELSE 0]

Activation_backward(g) ==
    LET l1 == IF NeedsGradSetup(layer, g) THEN BindGrad(layer, g) ELSE layer
    IN  [l1 EXCEPT !.grad_input_ = WriteInto(l1.grad_input_, Activation_grad_input(l1, g))]

(***************************************************************************)
(* Softmax.                                                                *)
(***************************************************************************)
\* the index (0-based) of the first largest of row b of buffer d
RowArgMax(d, sz, b) ==
    CHOOSE i \in 0..(sz - 1) :
        /\ \A j \in 0..(sz - 1) : Rd(d, b * sz + j + 1) <= Rd(d, b * sz + i + 1)
        /\ \A j \in 0..(i - 1) : Rd(d, b * sz + j + 1) < Rd(d, b * sz + i + 1)

\* cudnnSoftmaxForward over input_desc_, reading the argument's buffer; on the
\* grid the probabilities of a row round to 1 for its largest logit and 0 elsewhere
Softmax_output(l, x) ==
    LET X == InputData(x)
    IN  [k \in 1..(l.input_.n * PtrSz(l.input_)) |->
            IF (k - 1) % PtrSz(l.input_) = RowArgMax(X, PtrSz(l.input_), (k - 1) \div PtrSz(l.input_)) THEN 1 ELSE 0]

Softmax_forward(l, x) ==
    LET l1 == IF NeedsSetup(l, x) THEN BindInput(l, x) ELSE l
    IN  [l1 EXCEPT !.output_ = WriteInto(l1.output_, Softmax_output(l1, x))]

\* cudaMemcpyAsync of output_, cublasSaxpy of -target, cublasSscal by 1/target->n()
Softmax_grad_input(l, t) ==
    LET T == TargetData(t, PtrSz(t))
        copied == WriteInto(l.grad_input_, l.output_.d).d
    IN  [k \in 1..Len(copied) |-> IF k <= Len(T) THEN TDiv(copied[k] - T[k], t.n) ELSE copied[k]]

Softmax_backward(t) ==
    LET l1 == IF NeedsGradSetup(layer, t)
              THEN [layer EXCEPT !.grad_input_ =
                        IF layer.grad_input_ = NullBlob THEN NewBlob(layer.input_.n, PtrSz(layer.input_), junk)
                        ELSE Reset(layer.grad_input_, layer.input_.n, PtrSz(layer.input_), junk)]
              ELSE layer
    IN  [l1 EXCEPT !.grad_input_ = WriteInto(l1.grad_input_, Softmax_grad_input(l1, t))]

(***************************************************************************)
(* Conv2D (kernel 1x1 on 1x1 images: a cross-correlation over channels).   *)
(***************************************************************************)
\* the scratch bytes the provider asks for at batch size n, and its fastest algorithm
WorkspaceNeed(n) == n

FastestAlgo(n) == n

\* Conv2D::set_workspace
set_workspace(l) ==
    LET ws == IF l.workspace_size > WorkspaceNeed(l.batch_size_) THEN l.workspace_size
              ELSE WorkspaceNeed(l.batch_size_)
    IN  IF ws > 0
        THEN [l EXCEPT !.conv_algo_ = FastestAlgo(l.batch_size_), !.workspace_size = ws,
                       !.d_workspace = ws, !.nSelect = @ + 1,
                       !.live = IF l.d_workspace # 0 THEN l.live ELSE l.live + 1]
        ELSE [l EXCEPT !.conv_algo_ = FastestAlgo(l.batch_size_), !.workspace_size = ws,
                       !.nSelect = @ + 1]

\* cudnnConvolutionForward from the cached input_, then cudnnAddTensor of the biases
Conv2D_output(l) ==
    LET X == InputData(l.input_)
    IN  [k \in 1..(l.batch_size_ * OutSize) |->
            LET b == (k - 1) \div OutSize
                o == (k - 1) % OutSize
            IN  SumTo([i \in 0..(InSize - 1) |-> l.weights_[o * InSize + i + 1] * Rd(X, b * InSize + i + 1)], InSize)
                + l.biases_[o + 1]]

\* Conv2D::forward with set_workspace moved out of the set-up block
Conv2D_forward_selects_always(l, x, seed) ==
    LET l0 == AllocParams(l)
        setup == NeedsSetup(l0, x)
        m == IF setup THEN Materialize(set_workspace(BindInput(l0, x)), seed)
             ELSE [l |-> set_workspace(l0), st |-> "running", di |-> 0, dl |-> 0]
    IN  IF m.st # "running" THEN [l |-> m.l, st |-> m.st, di |-> m.di, dl |-> m.dl, computed |-> FALSE]
        ELSE [l |-> [m.l EXCEPT !.output_ = WriteInto(m.l.output_, Conv2D_output(m.l))],
              st |-> m.st, di |-> m.di, dl |-> m.dl, computed |-> TRUE]

\* Conv2D::forward
Conv2D_forward(l, x, seed) ==
    LET l0 == AllocParams(l)
        setup == NeedsSetup(l0, x)
        m == IF setup THEN Materialize(set_workspace(BindInput(l0, x)), seed)
             ELSE [l |-> l0, st |-> "running", di |-> 0, dl |-> 0]
    IN  IF m.st # "running" THEN [l |-> m.l, st |-> m.st, di |-> m.di, dl |-> m.dl, computed |-> FALSE]
        ELSE [l |-> [m.l EXCEPT !.output_ = WriteInto(m.l.output_, Conv2D_output(m.l))],
              st |-> m.st, di |-> m.di, dl |-> m.dl, computed |-> TRUE]

\* cudnnConvolutionBackwardBias, from the argument
Conv2D_grad_biases(l, g) ==
    LET DY == GradData(g, OutSize)
    IN  [o1 \in 1..OutSize |->
            SumTo([b \in 0..(l.batch_size_ - 1) |-> Rd(DY, b * OutSize + o1)], l.batch_size_)]

\* cudnnConvolutionBackwardFilter, from the cached input_ and grad_output_
Conv2D_grad_weights(l) ==
    LET X == InputData(l.input_)
        DY == GradData(l.grad_output_, OutSize)
    IN  [k \in 1..(InSize * OutSize) |->
            LET o == (k - 1) \div InSize
                i == (k - 1) % InSize
            IN  SumTo([b \in 0..(l.batch_size_ - 1) |->
                          Rd(X, b * InSize + i + 1) * Rd(DY, b * OutSize + o + 1)], l.batch_size_)]

\* cudnnConvolutionBackwardData, from the argument
Conv2D_grad_input(l, g) ==
    LET DY == GradData(g, OutSize)
    IN  [k \in 1..(l.batch_size_ * InSize) |->
            LET b == (k - 1) \div InSize
                i == (k - 1) % InSize
            IN  SumTo([o \in 0..(OutSize - 1) |->
                          l.weights_[o * InSize + i + 1] * Rd(DY, b * OutSize + o + 1)], OutSize)]

Conv2D_backward(g) ==
    LET l1 == IF NeedsGradSetup(layer, g)
              THEN [BindGrad(layer, g) EXCEPT !.grad_weights_ = Fill(Len(layer.weights_), junk),
                                              !.grad_biases_ = Fill(Len(layer.biases_), junk)]
              ELSE layer
        l2 == [l1 EXCEPT !.grad_biases_ = Conv2D_grad_biases(l1, g),
                         !.grad_weights_ = Conv2D_grad_weights(l1)]
    IN  IF WritesGradInput
        THEN [l2 EXCEPT !.grad_input_ = WriteInto(l2.grad_input_, Conv2D_grad_input(l2, g))]
        ELSE l2

(***************************************************************************)
(* Pooling (kernel 1, stride 1, padding 0).                                *)
(***************************************************************************)
\* cudnnPoolingForward from the cached input_: each window holds one element
Pooling_output(l) ==
    LET X == InputData(l.input_)
    IN  [k \in 1..(l.batch_size_ * PtrSz(l.input_)) |-> Rd(X, k)]

Pooling_forward(l, x) ==
    LET l1 == IF NeedsSetup(l, x) THEN BindInput(l, x) ELSE l
    IN  [l1 EXCEPT !.output_ = WriteInto(l1.output_, Pooling_output(l1))]

\* cudnnPoolingBackward, from the argument
Pooling_grad_input(l, g) ==
    LET DY == GradData(g, PtrSz(g))
    IN  [k \in 1..(l.input_.n * PtrSz(l.input_)) |-> Rd(DY, k)]

Pooling_backward(g) ==
    LET l1 == IF NeedsGradSetup(layer, g) THEN BindGrad(layer, g) ELSE layer
    IN  [l1 EXCEPT !.grad_input_ = WriteInto(l1.grad_input_, Pooling_grad_input(l1, g))]

(***************************************************************************)
(* LRN (alpha 0, k 1: the divisor (k + alpha/n * sum)^beta is 1).          *)
(***************************************************************************)
\* cudnnLRNCrossChannelForward from the cached input_
LRN_output(l) ==
    LET X == InputData(l.input_)
    IN  [k \in 1..(l.input_.n * PtrSz(l.input_)) |-> Rd(X, k)]

LRN_forward(l, x) ==
    LET l1 == IF NeedsSetup(l, x) THEN BindInput(l, x) ELSE l
    IN  [l1 EXCEPT !.output_ = WriteInto(l1.output_, LRN_output(l1))]

\* cudnnLRNCrossChannelBackward, from the cached grad_output_
LRN_grad_input(l) ==
    LET DY == GradData(l.grad_output_, PtrSz(l.grad_output_))
    IN  [k \in 1..(l.input_.n * PtrSz(l.input_)) |-> Rd(DY, k)]

LRN_backward(g) ==
    LET l1 == IF NeedsGradSetup(layer, g) THEN BindGrad(layer, g) ELSE layer
    IN  [l1 EXCEPT !.grad_input_ = WriteInto(l1.grad_input_, LRN_grad_input(l1))]


(***************************************************************************)
(* Dropout (rate 1/2: a kept element is scaled by 1/(1 - rate) = 2).       *)
(***************************************************************************)
\* the keep mask cudnnDropoutForward draws from its random state
DropMask(mseed, len) == [k \in 1..len |-> (mseed + k) % 2]

\* states_ and m_pReserve_: cudaFree if set, then cudaMalloc; cudnnSetDropoutDescriptor
Dropout_buffers(l) ==
    [l EXCEPT !.states_ = 1,
              !.m_pReserve_ = Fill(l.batch_size_ * PtrSz(l.input_), junk),
              !.live = l.live + (IF l.states_ # 0 THEN 0 ELSE 1)
                              + (IF l.m_pReserve_ # << >> THEN 0 ELSE 1)]

\* cudnnDropoutForward from the cached input_
Dropout_output(l, mask) ==
    LET X == InputData(l.input_)
    IN  [k \in 1..(l.input_.n * PtrSz(l.input_)) |-> Rd(X, k) * mask[k] * 2]

Dropout_forward(l, x, mseed) ==
    LET l1 == IF NeedsSetup(l, x) THEN Dropout_buffers(BindInput(l, x)) ELSE l
        mask == DropMask(mseed, l1.input_.n * PtrSz(l1.input_))
    IN  [l1 EXCEPT !.output_ = WriteInto(l1.output_, Dropout_output(l1, mask)),
                   !.m_pReserve_ = mask]

\* cudnnDropoutBackward, from the cached grad_output_ and the reserved mask
Dropout_grad_input(l) ==
    LET DY == GradData(l.grad_output_, PtrSz(l.grad_output_))
    IN  [k \in 1..(l.input_.n * PtrSz(l.input_)) |-> Rd(DY, k) * Rd(l.m_pReserve_, k) * 2]

Dropout_backward(g) ==
    LET l1 == IF NeedsGradSetup(layer, g) THEN BindGrad(layer, g) ELSE layer
    IN  [l1 EXCEPT !.grad_input_ = WriteInto(l1.grad_input_, Dropout_grad_input(l1))]

(***************************************************************************)
(* FusedBatchNormalization (per channel, batch statistics).                *)
(***************************************************************************)
\* the member epison, on the grid
BnEpsilon == 1

\* the batch mean of channel c (0-based) of the cached input_
BnMean(l, c) ==
    LET X == InputData(l.input_)
    IN  TDiv(SumTo([b \in 0..(l.batch_size_ - 1) |-> Rd(X, b * InSize + c + 1)], l.batch_size_),
             l.batch_size_)

\* sqrt(epsilon + batch variance) of channel c
BnStd(l, c) ==
    LET X == InputData(l.input_)
        mu == BnMean(l, c)
    IN  ISqrt(BnEpsilon
              + TDiv(SumTo([b \in 0..(l.batch_size_ - 1) |->
                               (Rd(X, b * InSize + c + 1) - mu) * (Rd(X, b * InSize + c + 1) - mu)],
                           l.batch_size_), l.batch_size_))

\* the normalised input element k (1-based) under the saved statistics
BnXhat(l, k) ==
    LET c == (k - 1) % InSize
    IN  TDiv(Rd(InputData(l.input_), k) - l.resultSaveMean_[c + 1], l.resultSaveInvVariance_[c + 1])

\* cudnnBatchNormalizationForwardTraining: y = bnScale * xhat + bnBias
FBN_output(l) ==
    [k \in 1..(l.batch_size_ * InSize) |->
        l.weights_[((k - 1) % InSize) + 1] * BnXhat(l, k) + l.biases_[((k - 1) % InSize) + 1]]

\* the four cudaMalloc calls of the set-up branch; nothing is freed first
FBN_buffers(l) == [l EXCEPT !.live = l.live + 4]

FBN_forward(l, x, seed) ==
    LET l0 == AllocParams(l)
        setup == NeedsSetup(l0, x)
        m == IF setup THEN Materialize(FBN_buffers(BindInput(l0, x)), seed)
             ELSE [l |-> l0, st |-> "running", di |-> 0, dl |-> 0]
        l1 == [m.l EXCEPT !.resultSaveMean_ = [c1 \in 1..InSize |-> BnMean(m.l, c1 - 1)],
                          !.resultSaveInvVariance_ = [c1 \in 1..InSize |-> BnStd(m.l, c1 - 1)]]
    IN  IF m.st # "running" THEN [l |-> m.l, st |-> m.st, di |-> m.di, dl |-> m.dl, computed |-> FALSE]
        ELSE [l |-> [l1 EXCEPT !.output_ = WriteInto(l1.output_, FBN_output(l1))],
              st |-> m.st, di |-> m.di, dl |-> m.dl, computed |-> TRUE]

\* the bias gradient of channel c: the sum of dy over the batch
FBN_dbias(l, c) ==
    LET DY == GradData(l.grad_output_, InSize)
    IN  SumTo([b \in 0..(l.batch_size_ - 1) |-> Rd(DY, b * InSize + c + 1)], l.batch_size_)

\* the scale gradient of channel c: the sum of dy * xhat over the batch
FBN_dscale(l, c) ==
    LET DY == GradData(l.grad_output_, InSize)
    IN  SumTo([b \in 0..(l.batch_size_ - 1) |->
                  Rd(DY, b * InSize + c + 1) * BnXhat(l, b * InSize + c + 1)], l.batch_size_)

\* the input gradient of cudnnBatchNormalizationBackward
FBN_grad_input(l) ==
    LET DY == GradData(l.grad_output_, InSize)
    IN  [k \in 1..(l.batch_size_ * InSize) |->
            LET c == (k - 1) % InSize
            IN  TDiv(l.weights_[c + 1] * (l.batch_size_ * Rd(DY, k) - FBN_dbias(l, c)
                                          - BnXhat(l, k) * FBN_dscale(l, c)),
                     l.batch_size_ * l.resultSaveInvVariance_[c + 1])]

FBN_backward(g) ==
    LET l1 == IF NeedsGradSetup(layer, g)
              THEN [BindGrad(layer, g) EXCEPT !.grad_weights_ = Fill(Len(layer.weights_), junk),
                                              !.grad_biases_ = Fill(Len(layer.biases_), junk)]
              ELSE layer
    IN  [l1 EXCEPT !.grad_input_ = WriteInto(l1.grad_input_, FBN_grad_input(l1)),
                   !.grad_weights_ = [c1 \in 1..InSize |-> FBN_dscale(l1, c1 - 1)],
                   !.grad_biases_ = [c1 \in 1..InSize |-> FBN_dbias(l1, c1 - 1)]]


(***************************************************************************)
(* The update kernels.  A launch covers every index below N once (the      *)
(* grid-stride loop CUDA_1D_KERNEL_LOOP); a fraction is <<num, den>>.      *)
(***************************************************************************)
\* adam_element taking the bias-corrected first moment from the previous m
adam_element_stale_m(step, m, v, w, g, beta1, beta2, eps_hat, lr) ==
    LET m1 == TDiv(m * beta1[1] + g * (beta1[2] - beta1[1]), beta1[2])
        v1 == TDiv(v * beta2[1] + g * g * (beta2[2] - beta2[1]), beta2[2])
        mi == TDiv(m * IPow(beta1[2], step + 1), IPow(beta1[2], step + 1) - IPow(beta1[1], step + 1))
        vi == TDiv(v1 * IPow(beta2[2], step + 1), IPow(beta2[2], step + 1) - IPow(beta2[1], step + 1))
    IN  [m |-> m1, v |-> v1, w |-> w - TDiv(lr * mi, ISqrt(vi) + eps_hat)]

\* one iteration of the loop body of adam_update: [m, v, w] of the element
adam_element(step, m, v, w, g, beta1, beta2, eps_hat, lr) ==
    LET m1 == TDiv(m * beta1[1] + g * (beta1[2] - beta1[1]), beta1[2])
        v1 == TDiv(v * beta2[1] + g * g * (beta2[2] - beta2[1]), beta2[2])
        mi == TDiv(m1 * IPow(beta1[2], step + 1), IPow(beta1[2], step + 1) - IPow(beta1[1], step + 1))
        vi == TDiv(v1 * IPow(beta2[2], step + 1), IPow(beta2[2], step + 1) - IPow(beta2[1], step + 1))
    IN  [m |-> m1, v |-> v1, w |-> w - TDiv(lr * mi, ISqrt(vi) + eps_hat)]

\* the kernel adam_update over N elements: the arrays [m, v, w] after the launch
adam_update(N, step, m, v, w, g, beta1, beta2, eps_hat, lr) ==
    LET e(i) == adam_element(step, m[i], v[i], w[i], g[i], beta1, beta2, eps_hat, lr)
        hit(i, a) == i <= N /\ i <= Len(a) /\ i <= Len(g)
    IN  [m |-> [i \in 1..Len(m) |-> IF hit(i, m) THEN e(i).m ELSE m[i]],
         v |-> [i \in 1..Len(v) |-> IF hit(i, v) THEN e(i).v ELSE v[i]],
         w |-> [i \in 1..Len(w) |-> IF hit(i, w) THEN e(i).w ELSE w[i]]]

\* rmsprop_element replacing the running average by the squared gradient
rmsprop_element_no_decay(m, w, g, decay, eps_hat, lr) ==
    LET m1 == g * g
    IN  [m |-> m1, w |-> w - TDiv(lr * g, ISqrt(eps_hat + m1))]

\* one iteration of the loop body of rmsprop_update: [m, w] of the element
rmsprop_element(m, w, g, decay, eps_hat, lr) ==
    LET m1 == m + TDiv((decay[2] - decay[1]) * (g * g - m), decay[2])
    IN  [m |-> m1, w |-> w - TDiv(lr * g, ISqrt(eps_hat + m1))]

\* the kernel rmsprop_update over N elements: the arrays [m, w] after the launch
rmsprop_update(N, m, w, g, decay, eps_hat, lr) ==
    LET e(i) == rmsprop_element(m[i], w[i], g[i], decay, eps_hat, lr)
        hit(i, a) == i <= N /\ i <= Len(a) /\ i <= Len(g)
    IN  [m |-> [i \in 1..Len(m) |-> IF hit(i, m) THEN e(i).m ELSE m[i]],
         w |-> [i \in 1..Len(w) |-> IF hit(i, w) THEN e(i).w ELSE w[i]]]

\* cublasSaxpy(n, alpha, x, y): y = alpha * x + y
cublasSaxpy(n, alpha, x, y) == [i \in 1..Len(y) |-> IF i <= n /\ i <= Len(x) THEN alpha * x[i] + y[i] ELSE y[i]]

\* if (weights_ != nullptr && grad_weights_ != nullptr)
HasWeightGrad(l) == l.weights_ # << >> /\ l.grad_weights_ # << >>

\* if (biases_ != nullptr && grad_biases_ != nullptr)
HasBiasGrad(l) == l.biases_ # << >> /\ l.grad_biases_ # << >>

\* update_weights_biases creating the gradient blobs itself when they are missing
update_weights_biases_lazy_grads(l, learning_rate) ==
    LET l0 == IF l.weights_ # << >> /\ l.grad_weights_ = << >>
              THEN [l EXCEPT !.grad_weights_ = Fill(Len(l.weights_), junk),
                             !.grad_biases_ = Fill(Len(l.biases_), junk)]
              ELSE l
        l1 == IF HasWeightGrad(l0)
              THEN [l0 EXCEPT !.weights_ = cublasSaxpy(Len(l0.weights_), -learning_rate, l0.grad_weights_, l0.weights_)]
              ELSE l0
    IN  IF HasBiasGrad(l1)
        THEN [l1 EXCEPT !.biases_ = cublasSaxpy(Len(l1.biases_), -learning_rate, l1.grad_biases_, l1.biases_)]
        ELSE l1

\* Layer::update_weights_biases
update_weights_biases(l, learning_rate) ==
    LET l1 == IF HasWeightGrad(l)
              THEN [l EXCEPT !.weights_ = cublasSaxpy(Len(l.weights_), -learning_rate, l.grad_weights_, l.weights_)]
              ELSE l
    IN  IF HasBiasGrad(l1)
        THEN [l1 EXCEPT !.biases_ = cublasSaxpy(Len(l1.biases_), -learning_rate, l1.grad_biases_, l1.biases_)]
        ELSE l1

\* the first launch of update_weights_biases_with_adam
adam_weights(l, learning_rate, beta1, beta2, eps_hat, step) ==
    LET r == adam_update(Len(l.weights_), step, l.weights_m_, l.weights_v_, l.weights_,
                         l.grad_weights_, beta1, beta2, eps_hat, learning_rate)
    IN  [l EXCEPT !.weights_m_ = r.m, !.weights_v_ = r.v, !.weights_ = r.w]

\* adam_biases launched on the arguments of the first launch (as rmsprop_biases is)
adam_biases_on_weights(l, learning_rate, beta1, beta2, eps_hat, step) ==
    LET r == adam_update(Len(l.weights_), step, l.weights_m_, l.weights_v_, l.weights_,
                         l.grad_weights_, beta1, beta2, eps_hat, learning_rate)
    IN  [l EXCEPT !.weights_m_ = r.m, !.weights_v_ = r.v, !.weights_ = r.w]

\* the second launch of update_weights_biases_with_adam
adam_biases(l, learning_rate, beta1, beta2, eps_hat, step) ==
    LET r == adam_update(Len(l.biases_), step, l.biases_m_, l.biases_v_, l.biases_,
                         l.grad_biases_, beta1, beta2, eps_hat, learning_rate)
    IN  [l EXCEPT !.biases_m_ = r.m, !.biases_v_ = r.v, !.biases_ = r.w]

\* Layer::update_weights_biases_with_adam
update_weights_biases_with_adam(l, learning_rate, beta1, beta2, eps_hat, step) ==
    LET l1 == IF HasWeightGrad(l) THEN adam_weights(l, learning_rate, beta1, beta2, eps_hat, step) ELSE l
    IN  IF HasBiasGrad(l1) THEN adam_biases(l1, learning_rate, beta1, beta2, eps_hat, step) ELSE l1

\* the first launch of update_weights_biases_with_rmsprop
rmsprop_weights(l, learning_rate, decay, eps_hat) ==
    LET r == rmsprop_update(Len(l.weights_), l.weights_m_, l.weights_, l.grad_weights_,
                            decay, eps_hat, learning_rate)
    IN  [l EXCEPT !.weights_m_ = r.m, !.weights_ = r.w]

\* the second launch of update_weights_biases_with_rmsprop: its arguments are
\* weights_->len(), weights_m_, weights_ and grad_weights_ again
rmsprop_biases(l, learning_rate, decay, eps_hat) ==
    LET r == rmsprop_update(Len(l.weights_), l.weights_m_, l.weights_, l.grad_weights_,
                            decay, eps_hat, learning_rate)
    IN  [l EXCEPT !.weights_m_ = r.m, !.weights_ = r.w]

\* Layer::update_weights_biases_with_rmsprop
update_weights_biases_with_rmsprop(l, learning_rate, decay, eps_hat) ==
    LET l1 == IF HasWeightGrad(l) THEN rmsprop_weights(l, learning_rate, decay, eps_hat) ELSE l
    IN  IF HasBiasGrad(l1) THEN rmsprop_biases(l1, learning_rate, decay, eps_hat) ELSE l1

(***************************************************************************)
(* get_loss / get_accuracy.                                                *)
(***************************************************************************)
\* a build with -DNDEBUG: assert expands to nothing
NDEBUG_defined == TRUE

\* whether the build defines NDEBUG (the Makefile's flags do not: assert is live)
NDEBUG == FALSE

\* EXIT_FAILURE of <cstdlib>
EXIT_FAILURE == 1

\* the base Layer::get_loss / Layer::get_accuracy: assert(... && false); return EXIT_FAILURE;
\* [st: the process status, ret: what the caller receives, val: the value]
Layer_get(what) ==
    IF ~NDEBUG THEN [st |-> "aborted", ret |-> "none", val |-> 0]
    ELSE [st |-> "running", ret |-> what, val |-> EXIT_FAILURE]

RECURSIVE ArgMaxScan_ge(_, _, _, _)
\* the scan moving to a later index on an equal value
ArgMaxScan_ge(d, base, i, idx) ==
    IF i >= NumClasses THEN idx
    ELSE ArgMaxScan_ge(d, base, i + 1, IF Rd(d, base + i + 1) >= Rd(d, base + idx + 1) THEN i ELSE idx)

RECURSIVE ArgMaxScan(_, _, _, _)
\* the scan of one row from index i on, idx being the best index so far
ArgMaxScan(d, base, i, idx) ==
    IF i >= NumClasses THEN idx
    ELSE ArgMaxScan(d, base, i + 1, IF Rd(d, base + i + 1) > Rd(d, base + idx + 1) THEN i ELSE idx)

\* the 0-based indexes of h_output and of h_target the scan of row b reads:
\* b * output_size + idx with idx = 0 at first, and b * output_size + i for i = 1..9
ScanReads(b, output_size) == {b * output_size + i : i \in 0..(NumClasses - 1)}

\* Softmax::get_accuracy: the hit count
Softmax_get_accuracy(l, t) ==
    LET T == TargetData(t, PtrSz(t))
        batch_size == l.output_.n
        output_size == l.output_.sz
    IN  Cardinality({b \in 0..(batch_size - 1) :
            ArgMaxScan(l.output_.d, b * output_size, 1, 0) = ArgMaxScan(T, b * output_size, 1, 0)})

\* CrossEntropyLoss::loss(output_, target): on the grid -log p of a sample's true
\* class is 0 for p = 1 and 1 (clipped) for p = 0; the mean over the batch
CrossEntropyLoss(l, t) ==
    LET T == TargetData(t, PtrSz(t))
        sz == l.output_.sz
    IN  TDiv(Cardinality({b \in 0..(l.output_.n - 1) :
                 \E i \in 0..(sz - 1) : Rd(T, b * sz + i + 1) = 1 /\ l.output_.d[b * sz + i + 1] = 0}),
             l.output_.n)


(***************************************************************************)
(* The calls.                                                              *)
(***************************************************************************)
Seeds == {0, 1}

JunkValues == {0, 3}

\* the contents of the two parameter files written by an earlier run
PretrainedWeights(len) == [i \in 1..len |-> i + 1]

PretrainedBiases(len) == [i \in 1..len |-> -i]

\* the hyper-parameters the caller passes: beta1 = beta2 = decay = 1/2
LearningRates == {2}
Beta1 == <<1, 2>>
Beta2 == <<1, 2>>
Decay == <<1, 2>>
EpsHats == {1}
Steps == 0..MaxUpdate

Optimizers == {"sgd", "adam", "rmsprop"}

NoHp == [lr |-> 0, eps |-> 0, step |-> 0]

\* the virtual call forward(x) on the layer in state l: [l, st, di, dl, computed]
forward(l, x, seed) ==
    LET plain(r) == [l |-> r, st |-> "running", di |-> 0, dl |-> 0, computed |-> TRUE]
    IN  CASE kind = "Linear" -> Linear_forward(l, x, seed)
          [] kind = "Conv2D" -> Conv2D_forward(l, x, seed)
          [] kind = "FBN" -> FBN_forward(l, x, seed)
          [] kind = "Activation" -> plain(Activation_forward(l, x))
          [] kind = "Softmax" -> plain(Softmax_forward(l, x))
          [] kind = "Pooling" -> plain(Pooling_forward(l, x))
          [] kind = "LRN" -> plain(LRN_forward(l, x))
          [] kind = "Dropout" -> plain(Dropout_forward(l, x, seed))

\* the virtual call layer->backward(g): the layer after it
backward(g) ==
    CASE kind = "Linear" -> Linear_backward(g)
      [] kind = "Conv2D" -> Conv2D_backward(g)
      [] kind = "FBN" -> FBN_backward(g)
      [] kind = "Activation" -> Activation_backward(g)
      [] kind = "Softmax" -> Softmax_backward(g)
      [] kind = "Pooling" -> Pooling_backward(g)
      [] kind = "LRN" -> LRN_backward(g)
      [] kind = "Dropout" -> Dropout_backward(g)

Forward(x, seed) ==
    /\ status = "running"
    /\ nForward < MaxForward
    /\ LET r == forward(layer, x, seed)
       IN  /\ layer' = r.l
           /\ status' = r.st
           /\ nInit' = nInit + r.di
           /\ nLoad' = nLoad + r.dl
           /\ last' = [op |-> "forward", x |-> x, pre |-> layer, computed |-> r.computed,
                       ret |-> IF r.st = "running" THEN "blob" ELSE "none", val |-> 0, hp |-> NoHp]
    /\ nForward' = nForward + 1
    /\ sameBatch' = (sameBatch /\ (layer.input_ = NullPtr \/ layer.batch_size_ = x.n))
    /\ UNCHANGED <<config, files, nUpdate>>

\* backward is called with the gradient of the output of the latest forward call
Backward(g) ==
    /\ status = "running"
    /\ layer.input_ # NullPtr
    /\ g.n = layer.batch_size_
    /\ layer' = backward(g)
    /\ last' = [op |-> "backward", x |-> g, pre |-> layer, computed |-> TRUE,
                ret |-> "blob", val |-> 0, hp |-> NoHp]
    /\ UNCHANGED <<config, files, status, nInit, nLoad, nForward, nUpdate, sameBatch>>

Update(lr) ==
    /\ status = "running"
    /\ optimizer = "sgd"
    /\ nUpdate < MaxUpdate
    /\ layer' = update_weights_biases(layer, lr)
    /\ last' = [op |-> "update", x |-> NullPtr, pre |-> layer, computed |-> TRUE,
                ret |-> "none", val |-> 0, hp |-> [lr |-> lr, eps |-> 0, step |-> 0]]
    /\ nUpdate' = nUpdate + 1
    /\ UNCHANGED <<config, files, status, nInit, nLoad, nForward, sameBatch>>

UpdateAdam(lr, eps, step) ==
    /\ status = "running"
    /\ optimizer = "adam"
    /\ nUpdate < MaxUpdate
    /\ layer' = update_weights_biases_with_adam(layer, lr, Beta1, Beta2, eps, step)
    /\ last' = [op |-> "update_adam", x |-> NullPtr, pre |-> layer, computed |-> TRUE,
                ret |-> "none", val |-> 0, hp |-> [lr |-> lr, eps |-> eps, step |-> step]]
    /\ nUpdate' = nUpdate + 1
    /\ UNCHANGED <<config, files, status, nInit, nLoad, nForward, sameBatch>>

UpdateRmsprop(lr, eps) ==
    /\ status = "running"
    /\ optimizer = "rmsprop"
    /\ nUpdate < MaxUpdate
    /\ layer' = update_weights_biases_with_rmsprop(layer, lr, Decay, eps)
    /\ last' = [op |-> "update_rmsprop", x |-> NullPtr, pre |-> layer, computed |-> TRUE,
                ret |-> "none", val |-> 0, hp |-> [lr |-> lr, eps |-> eps, step |-> 0]]
    /\ nUpdate' = nUpdate + 1
    /\ UNCHANGED <<config, files, status, nInit, nLoad, nForward, sameBatch>>

\* get_loss(target) on the output of a forward call: Softmax overrides the base method
GetLoss(t) ==
    /\ status = "running"
    /\ layer.output_ # NullBlob
    /\ t.n = layer.output_.n
    /\ LET r == IF kind = "Softmax"
                THEN [st |-> "running", ret |-> "loss", val |-> CrossEntropyLoss(layer, t)]
                ELSE Layer_get("loss")
       IN  /\ status' = r.st
           /\ last' = [op |-> "get_loss", x |-> t, pre |-> layer, computed |-> r.st = "running",
                       ret |-> r.ret, val |-> r.val, hp |-> NoHp]
    /\ UNCHANGED <<config, layer, files, nInit, nLoad, nForward, nUpdate, sameBatch>>

\* get_accuracy(target) on the output of a forward call: Softmax overrides the base method
GetAccuracy(t) ==
    /\ status = "running"
    /\ layer.output_ # NullBlob
    /\ t.n = layer.output_.n
    /\ LET r == IF kind = "Softmax"
                THEN [st |-> "running", ret |-> "hits", val |-> Softmax_get_accuracy(layer, t)]
                ELSE Layer_get("hits")
       IN  /\ status' = r.st
           /\ last' = [op |-> "get_accuracy", x |-> t, pre |-> layer, computed |-> r.st = "running",
                       ret |-> r.ret, val |-> r.val, hp |-> NoHp]
    /\ UNCHANGED <<config, layer, files, nInit, nLoad, nForward, nUpdate, sameBatch>>

\* what a call through a null blob pointer does: the process crashes, or the call
\* goes on without touching the object
NullDerefOutcomes == {"crash", "return"}

\* an explicit call of load_parameter; with weights_ == nullptr the call
\* weights_->file_read dereferences a null pointer
LoadParameter(o) ==
    /\ status = "running"
    /\ IF layer.weights_ = << >>
       THEN /\ layer' = layer
            /\ status' = IF o = "crash" THEN "crashed" ELSE "running"
            /\ last' = [op |-> "load_parameter", x |-> NullPtr, pre |-> layer, computed |-> FALSE,
                        ret |-> IF o = "crash" THEN "none" ELSE "rc", val |-> -1, hp |-> NoHp]
       ELSE /\ o = "return"
            /\ LET r == load_parameter(layer)
               IN  /\ layer' = r.l
                   /\ last' = [op |-> "load_parameter", x |-> NullPtr, pre |-> layer, computed |-> TRUE,
                               ret |-> "rc", val |-> r.rc, hp |-> NoHp]
            /\ status' = status
    /\ UNCHANGED <<config, files, nInit, nLoad, nForward, nUpdate, sameBatch>>

\* an explicit call of save_parameter
SaveParameter ==
    /\ status = "running"
    /\ LET r == save_parameter(layer)
       IN  /\ files' = r.f
           /\ last' = [op |-> "save_parameter", x |-> NullPtr, pre |-> layer, computed |-> TRUE,
                       ret |-> "rc", val |-> r.rc, hp |-> NoHp]
    /\ UNCHANGED <<config, layer, status, nInit, nLoad, nForward, nUpdate, sameBatch>>

Init ==
    /\ kind \in Kinds
    /\ freeze_ \in (IF kind \in ParamKinds THEN BOOLEAN ELSE {FALSE})
    /\ load_pretrain_ \in (IF kind \in ParamKinds THEN BOOLEAN ELSE {FALSE})
    /\ gradient_stop_ \in BOOLEAN
    /\ optimizer \in Optimizers
    /\ pool = {p \in Ptrs : p.id = 1}
    /\ junk \in JunkValues
    /\ writable = [w |-> TRUE, b |-> TRUE]
    /\ layer = NewLayer
    /\ files \in (IF load_pretrain_
                  THEN [w : {<< >>, PretrainedWeights(WLen(kind))},
                        b : {<< >>, PretrainedBiases(BLen(kind))}]
                  ELSE {[w |-> PretrainedWeights(WLen(kind)), b |-> PretrainedBiases(BLen(kind))]})
    /\ status = "running"
    /\ nInit = 0
    /\ nLoad = 0
    /\ nForward = 0
    /\ nUpdate = 0
    /\ sameBatch = TRUE
    /\ last = NoCall
    /\ grid = NoGrid
    /\ call = NoCallStep

Next ==
    \/ \E x \in pool, seed \in Seeds : Forward(x, seed)
    \/ \E g \in pool : Backward(g)
    \/ \E lr \in LearningRates : Update(lr)
    \/ \E lr \in LearningRates, eps \in EpsHats, step \in Steps : UpdateAdam(lr, eps, step)
    \/ \E lr \in LearningRates, eps \in EpsHats : UpdateRmsprop(lr, eps)
    \/ \E t \in pool : GetLoss(t)
    \/ \E t \in pool : GetAccuracy(t)

Spec == Init /\ [][Next]_vars

(***************************************************************************)
(* A caller that also saves and loads the parameters explicitly: a layer   *)
(* trained with update_weights_biases, any of the two files present or     *)
(* missing and writable or not.                                            *)
(***************************************************************************)
IOKinds == {"Linear", "FBN", "Activation"}

InitIO ==
    /\ kind \in IOKinds
    /\ freeze_ \in (IF kind \in ParamKinds THEN BOOLEAN ELSE {FALSE})
    /\ load_pretrain_ = FALSE
    /\ gradient_stop_ = FALSE
    /\ optimizer = "sgd"
    /\ pool = {p \in Ptrs : p.id = 1}
    /\ junk = 3
    /\ writable \in [w : BOOLEAN, b : BOOLEAN]
    /\ layer = NewLayer
    /\ files \in [w : {<< >>, PretrainedWeights(WLen(kind))},
                   b : {<< >>, PretrainedBiases(BLen(kind))}]
    /\ status = "running"
    /\ nInit = 0
    /\ nLoad = 0
    /\ nForward = 0
    /\ nUpdate = 0
    /\ sameBatch = TRUE
    /\ last = NoCall
    /\ grid = NoGrid
    /\ call = NoCallStep

NextIO ==
    \/ \E x \in pool, seed \in Seeds : Forward(x, seed)
    \/ \E g \in pool : Backward(g)
    \/ \E lr \in LearningRates : Update(lr)
    \/ \E o \in NullDerefOutcomes : LoadParameter(o)
    \/ SaveParameter

SpecIO == InitIO /\ [][NextIO]_vars

(***************************************************************************)
(* The layer fed with tensors of several shapes: tensors with InSize or     *)
(* InSize + 1 elements per sample and tensors with NumClasses elements per  *)
(* sample. A parameter-owning layer is fed with the shape it was built for. *)
(***************************************************************************)
ShapeKinds == {"Linear", "FBN", "Activation", "Softmax", "Pooling", "LRN", "Dropout"}

InitShape ==
    /\ kind \in ShapeKinds
    /\ freeze_ = FALSE
    /\ load_pretrain_ = FALSE
    /\ gradient_stop_ = FALSE
    /\ optimizer = "sgd"
    /\ pool = (IF kind \in ParamKinds THEN {p \in Ptrs : p.id = 1} ELSE Ptrs)
    /\ junk \in JunkValues
    /\ writable = [w |-> TRUE, b |-> TRUE]
    /\ layer = NewLayer
    /\ files = [w |-> PretrainedWeights(WLen(kind)), b |-> PretrainedBiases(BLen(kind))]
    /\ status = "running"
    /\ nInit = 0
    /\ nLoad = 0
    /\ nForward = 0
    /\ nUpdate = 0
    /\ sameBatch = TRUE
    /\ last = NoCall
    /\ grid = NoGrid
    /\ call = NoCallStep

NextShape ==
    \/ \E x \in pool, seed \in Seeds : Forward(x, seed)
    \/ \E t \in pool : GetLoss(t)
    \/ \E t \in pool : GetAccuracy(t)

SpecShape == InitShape /\ [][NextShape]_vars

(***************************************************************************)
(* The two optimizer kernels launched on the weight arrays of a layer that  *)
(* has been trained for a while: the weights, the accumulators and the      *)
(* gradients hold arbitrary values, and the caller passes any rates.        *)
(***************************************************************************)
\* the number of weights of the layer
KernelLen == OutSize * InSize

\* the rates beta1, beta2 and decay the caller passes: 0, 1/2 and 1
BetaValues == {<<0, 1>>, <<1, 2>>}
DecayValues == {<<1, 1>>, <<1, 2>>}

\* the values the arrays hold when the kernel is launched; v, and the running
\* average m of rmsprop, are averages of squares
WeightValues == {-1, 2}
MomentValues == {-3, 0, 3}
SquareValues == {0, 4}
GradValues == {-2, 0, 3}

Arrays(S) == [1..KernelLen -> S]

KernelHp(lr, eps, step, beta1, beta2, decay) ==
    [lr |-> lr, eps |-> eps, step |-> step, beta1 |-> beta1, beta2 |-> beta2, decay |-> decay]

\* adam_update<<<...>>>(weights_->len(), step, weights_m_, weights_v_, weights_, grad_weights_, ...)
LaunchAdam(lr, beta1, beta2, eps, step) ==
    /\ status = "running"
    /\ optimizer = "adam"
    /\ nUpdate < MaxUpdate
    /\ layer' = adam_weights(layer, lr, beta1, beta2, eps, step)
    /\ last' = [op |-> "adam_update", x |-> NullPtr, pre |-> layer, computed |-> TRUE,
                ret |-> "none", val |-> 0, hp |-> KernelHp(lr, eps, step, beta1, beta2, <<0, 1>>)]
    /\ nUpdate' = nUpdate + 1
    /\ UNCHANGED <<config, files, status, nInit, nLoad, nForward, sameBatch>>

\* rmsprop_update<<<...>>>(weights_->len(), weights_m_, weights_, grad_weights_, ...)
LaunchRmsprop(lr, decay, eps) ==
    /\ status = "running"
    /\ optimizer = "rmsprop"
    /\ nUpdate < MaxUpdate
    /\ layer' = rmsprop_weights(layer, lr, decay, eps)
    /\ last' = [op |-> "rmsprop_update", x |-> NullPtr, pre |-> layer, computed |-> TRUE,
                ret |-> "none", val |-> 0, hp |-> KernelHp(lr, eps, 0, <<0, 1>>, <<0, 1>>, decay)]
    /\ nUpdate' = nUpdate + 1
    /\ UNCHANGED <<config, files, status, nInit, nLoad, nForward, sameBatch>>

InitKernel ==
    /\ kind = "Linear"
    /\ freeze_ = FALSE
    /\ load_pretrain_ = FALSE
    /\ gradient_stop_ = FALSE
    /\ optimizer \in {"adam", "rmsprop"}
    /\ pool = {p \in Ptrs : p.id = 1}
    /\ junk = 0
    /\ writable = [w |-> TRUE, b |-> TRUE]
    /\ \E w \in Arrays(WeightValues), g \in Arrays(GradValues),
          m \in Arrays(IF optimizer = "adam" THEN MomentValues ELSE SquareValues),
          v \in Arrays(IF optimizer = "adam" THEN SquareValues ELSE {0}) :
            layer = [NewLayer EXCEPT !.weights_ = w, !.grad_weights_ = g,
                                     !.weights_m_ = m, !.weights_v_ = v]
    /\ files = [w |-> PretrainedWeights(WLen(kind)), b |-> PretrainedBiases(BLen(kind))]
    /\ status = "running"
    /\ nInit = 0
    /\ nLoad = 0
    /\ nForward = 0
    /\ nUpdate = 0
    /\ sameBatch = TRUE
    /\ last = NoCall
    /\ grid = NoGrid
    /\ call = NoCallStep

NextKernel ==
    \/ \E lr \in LearningRates, beta1 \in BetaValues, beta2 \in BetaValues, eps \in EpsHats, step \in Steps :
            LaunchAdam(lr, beta1, beta2, eps, step)
    \/ \E lr \in LearningRates, decay \in DecayValues, eps \in EpsHats : LaunchRmsprop(lr, decay, eps)

SpecKernel == InitKernel /\ [][NextKernel]_vars

(***************************************************************************)
(* One launch of adam_update or rmsprop_update seen thread by thread: the   *)
(* grid has gridDim blocks of blockDim threads, each thread runs the loop   *)
(* CUDA_1D_KERNEL_LOOP(i, N), and the threads' iterations interleave in any *)
(* order. grid.idx[t] is the loop variable of thread t, grid.by[i] the      *)
(* threads that have accessed element i, grid.cnt[i] the updates of i.      *)
(***************************************************************************)
GridDims == {1, 2}
BlockDims == {1, 2}
KernelNs == {1, 3}

\* blockIdx.x * blockDim.x + threadIdx.x
ThreadId(g, blockIdx, threadIdx) == blockIdx * g.blockDim + threadIdx

\* the threads of the grid, by id
Threads(g) == {ThreadId(g, b, t) : b \in 0..(g.gridDim - 1), t \in 0..(g.blockDim - 1)}

\* a loop striding by the block size only
GridStride_block(g) == g.blockDim

\* i += blockDim.x * gridDim.x
GridStride(g) == g.blockDim * g.gridDim

\* the loop body of the kernel on element i (0-based) of the arrays of layer l
ElementUpdate(l, g, i) ==
    IF i + 1 > Len(l.weights_) THEN l
    ELSE IF optimizer = "adam"
         THEN LET e == adam_element(0, l.weights_m_[i + 1], l.weights_v_[i + 1], l.weights_[i + 1],
                                    l.grad_weights_[i + 1], Beta1, Beta2, g.eps, g.lr)
              IN  [l EXCEPT !.weights_m_[i + 1] = e.m, !.weights_v_[i + 1] = e.v, !.weights_[i + 1] = e.w]
         ELSE LET e == rmsprop_element(l.weights_m_[i + 1], l.weights_[i + 1], l.grad_weights_[i + 1],
                                       Decay, g.eps, g.lr)
              IN  [l EXCEPT !.weights_m_[i + 1] = e.m, !.weights_[i + 1] = e.w]

\* kernel<<<gridDim, blockDim>>>(weights_->len(), ...): every thread starts at its id
LaunchKernel(gd, bd, lr, eps) ==
    /\ status = "running"
    /\ ~grid.launched
    /\ LET g0 == [NoGrid EXCEPT !.launched = TRUE, !.N = Len(layer.weights_),
                                !.gridDim = gd, !.blockDim = bd, !.lr = lr, !.eps = eps]
       IN  grid' = [g0 EXCEPT !.idx = [t \in Threads(g0) |-> t],
                              !.by = [i \in 0..(g0.N + gd * bd) |-> {}],
                              !.cnt = [i \in 0..(g0.N + gd * bd) |-> 0]]
    /\ last' = [op |-> "launch", x |-> NullPtr, pre |-> layer, computed |-> TRUE,
                ret |-> "none", val |-> 0, hp |-> NoHp]
    /\ UNCHANGED <<kind, freeze_, load_pretrain_, gradient_stop_, optimizer, pool, junk, writable,
                   layer, files, status, nInit, nLoad, nForward, nUpdate, sameBatch, call>>

\* one iteration of the loop of thread t: the test i < N, the body on element i, the stride
ThreadStep(t) ==
    /\ grid.launched
    /\ t \in DOMAIN grid.idx
    /\ grid.idx[t] < grid.N
    /\ LET i == grid.idx[t]
       IN  /\ layer' = ElementUpdate(layer, grid, i)
           /\ grid' = [grid EXCEPT !.idx[t] = i + GridStride(grid),
                                   !.by[i] = @ \cup {t},
                                   !.cnt[i] = @ + 1]
    /\ UNCHANGED <<kind, freeze_, load_pretrain_, gradient_stop_, optimizer, pool, junk, writable,
                   files, status, nInit, nLoad, nForward, nUpdate, sameBatch, last, call>>

InitThreads ==
    /\ kind = "Linear"
    /\ freeze_ = FALSE
    /\ load_pretrain_ = FALSE
    /\ gradient_stop_ = FALSE
    /\ optimizer \in {"adam", "rmsprop"}
    /\ pool = {p \in Ptrs : p.id = 1}
    /\ junk = 0
    /\ writable = [w |-> TRUE, b |-> TRUE]
    /\ \E n \in KernelNs :
          \E w \in [1..n -> WeightValues], g \in [1..n -> GradValues \ {0}] :
            layer = [NewLayer EXCEPT !.weights_ = w, !.grad_weights_ = g,
                                     !.weights_m_ = Fill(n, 0), !.weights_v_ = Fill(n, 0)]
    /\ files = [w |-> PretrainedWeights(WLen(kind)), b |-> PretrainedBiases(BLen(kind))]
    /\ status = "running"
    /\ nInit = 0
    /\ nLoad = 0
    /\ nForward = 0
    /\ nUpdate = 0
    /\ sameBatch = TRUE
    /\ last = NoCall
    /\ grid = NoGrid
    /\ call = NoCallStep

NextThreads ==
    \/ \E gd \in GridDims, bd \in BlockDims, lr \in LearningRates, eps \in EpsHats : LaunchKernel(gd, bd, lr, eps)
    \/ \E t \in Threads(grid) : ThreadStep(t)

SpecThreads == InitThreads /\ [][NextThreads]_vars

(***************************************************************************)
(* init_weight_bias (as called by the set-up of Linear::forward) and        *)
(* Softmax::backward followed statement by statement. call.pc is the next   *)
(* statement, call.synced whether cudaDeviceSynchronize has returned in     *)
(* this call, call.writes the writes done so far, call.pending the device   *)
(* work queued by earlier calls and not yet finished.                       *)
(***************************************************************************)
MaxPending == 1

\* the statements with cudaDeviceSynchronize after the writes
Body_sync_last(fn) ==
    IF fn = "init_weight_bias"
    THEN <<"test", "weights_", "biases_", "weights_m_", "weights_v_", "biases_m_", "biases_v_",
           "to_cuda", "sync", "return">>
    ELSE <<"setup", "memcpy", "saxpy", "sscal", "sync", "return">>

\* the statements of the two functions, in program order
Body(fn) ==
    IF fn = "init_weight_bias"
    THEN <<"sync", "test", "weights_", "biases_", "weights_m_", "weights_v_", "biases_m_", "biases_v_",
           "to_cuda", "return">>
    ELSE <<"sync", "setup", "memcpy", "saxpy", "sscal", "return">>

\* the layer after statement stmt of call c; "return" of init_weight_bias goes back
\* into Linear::forward, which computes the output
Exec(l, c, stmt) ==
    CASE stmt = "weights_" -> [l EXCEPT !.weights_ = [i \in 1..Len(l.weights_) |-> Draw(c.seed, i)]]
      [] stmt = "biases_" -> [l EXCEPT !.biases_ = Fill(Len(l.biases_), 0)]
      [] stmt = "weights_m_" -> [l EXCEPT !.weights_m_ = Fill(Len(l.weights_m_), 0)]
      [] stmt = "weights_v_" -> [l EXCEPT !.weights_v_ = Fill(Len(l.weights_v_), 0)]
      [] stmt = "biases_m_" -> [l EXCEPT !.biases_m_ = Fill(Len(l.biases_m_), 0)]
      [] stmt = "biases_v_" -> [l EXCEPT !.biases_v_ = Fill(Len(l.biases_v_), 0)]
      [] stmt = "setup" ->
            IF NeedsGradSetup(l, c.x)
            THEN [l EXCEPT !.grad_input_ =
                      IF l.grad_input_ = NullBlob THEN NewBlob(l.input_.n, PtrSz(l.input_), junk)
                      ELSE Reset(l.grad_input_, l.input_.n, PtrSz(l.input_), junk)]
            ELSE l
      [] stmt = "memcpy" -> [l EXCEPT !.grad_input_ = WriteInto(l.grad_input_, l.output_.d)]
      [] stmt = "saxpy" ->
            LET T == TargetData(c.x, PtrSz(c.x))
            IN  [l EXCEPT !.grad_input_.d = [k \in 1..Len(@) |-> IF k <= Len(T) THEN @[k] - T[k] ELSE @[k]]]
      [] stmt = "sscal" ->
            [l EXCEPT !.grad_input_.d =
                [k \in 1..Len(@) |-> IF k <= c.x.n * PtrSz(c.x) THEN TDiv(@[k], c.x.n) ELSE @[k]]]
      [] stmt = "return" /\ c.fn = "init_weight_bias" ->
            [l EXCEPT !.output_ = WriteInto(l.output_, Linear_output(l))]
      [] OTHER -> l

\* the entry into fn: Linear::forward(x) up to its call of init_weight_bias(seed), or
\* the call Softmax::backward(x); p is the device work still in flight
Enter(fn, x, seed, p) ==
    /\ status = "running"
    /\ call.fn = "none"
    /\ IF fn = "init_weight_bias"
       THEN /\ kind = "Linear" /\ InitsFresh
            /\ NeedsSetup(AllocParams(layer), x)
            /\ nForward < MaxForward
            /\ layer' = Linear_one_vec(BindInput(AllocParams(layer), x))
            /\ nForward' = nForward + 1
       ELSE /\ kind = "Softmax"
            /\ layer.input_ # NullPtr /\ x.n = layer.batch_size_
            /\ layer' = layer
            /\ nForward' = nForward
    /\ call' = [fn |-> fn, pc |-> 1, synced |-> FALSE, writes |-> 0, pending |-> p,
                x |-> x, seed |-> seed, pre |-> layer,
                expect |-> IF fn = "init_weight_bias" THEN forward(layer, x, seed).l ELSE Softmax_backward(x)]
    /\ last' = [NoCall EXCEPT !.op = "enter"]
    /\ UNCHANGED <<kind, freeze_, load_pretrain_, gradient_stop_, optimizer, pool, junk, writable, grid,
                   files, status, nInit, nLoad, nUpdate, sameBatch>>

\* the next statement of the call; cudaDeviceSynchronize returns when no device work is in flight
CallStep ==
    /\ status = "running"
    /\ call.fn # "none"
    /\ LET stmt == Body(call.fn)[call.pc]
           skip == stmt = "test" /\ (layer.weights_ = << >> \/ layer.biases_ = << >>)
       IN  /\ stmt = "sync" => call.pending = 0
           /\ layer' = Exec(layer, call, stmt)
           /\ call' = [call EXCEPT !.fn = IF stmt = "return" THEN "none" ELSE @,
                                   !.pc = IF skip THEN Len(Body(call.fn)) ELSE @ + 1,
                                   !.synced = @ \/ stmt = "sync",
                                   !.writes = IF stmt \in {"sync", "test", "return"} THEN @ ELSE @ + 1]
           /\ last' = IF stmt = "return"
                      THEN [op |-> call.fn, x |-> call.x, pre |-> call.pre, computed |-> TRUE,
                            ret |-> "blob", val |-> 0, hp |-> NoHp]
                      ELSE last
           /\ nInit' = IF stmt = "return" /\ call.fn = "init_weight_bias" THEN nInit + 1 ELSE nInit
    /\ UNCHANGED <<kind, freeze_, load_pretrain_, gradient_stop_, optimizer, pool, junk, writable, grid,
                   files, status, nLoad, nForward, nUpdate, sameBatch>>

\* a kernel or copy queued by an earlier call finishes on the device
DeviceProgress ==
    /\ call.pending > 0
    /\ call' = [call EXCEPT !.pending = @ - 1]
    /\ UNCHANGED <<kind, freeze_, load_pretrain_, gradient_stop_, optimizer, pool, junk, writable, grid,
                   layer, files, status, nInit, nLoad, nForward, nUpdate, sameBatch, last>>

InitSync ==
    /\ kind \in {"Linear", "Softmax"}
    /\ freeze_ = FALSE
    /\ load_pretrain_ = FALSE
    /\ gradient_stop_ = FALSE
    /\ optimizer = "sgd"
    /\ pool = {p \in Ptrs : p.id = 1}
    /\ junk \in JunkValues
    /\ writable = [w |-> TRUE, b |-> TRUE]
    /\ layer = NewLayer
    /\ files = [w |-> PretrainedWeights(WLen(kind)), b |-> PretrainedBiases(BLen(kind))]
    /\ status = "running"
    /\ nInit = 0
    /\ nLoad = 0
    /\ nForward = 0
    /\ nUpdate = 0
    /\ sameBatch = TRUE
    /\ last = NoCall
    /\ grid = NoGrid
    /\ call = NoCallStep

NextSync ==
    \/ \E x \in pool, seed \in Seeds : call.fn = "none" /\ Forward(x, seed)
    \/ \E x \in pool, seed \in Seeds, p \in 0..MaxPending : Enter("init_weight_bias", x, seed, p)
    \/ \E t \in pool, p \in 0..MaxPending : Enter("Softmax::backward", t, 0, p)
    \/ CallStep
    \/ DeviceProgress

SpecSync == InitSync /\ [][NextSync]_vars

(***************************************************************************)
(* The layer fed with batches of varying size and then destroyed.           *)
(***************************************************************************)
\* the destructor of the variant, then Layer::~Layer: the cudaFree calls on the raw
\* device buffers and the delete of the blobs
destroy(l) ==
    LET freed == CASE kind = "Linear" -> IF l.d_one_vec # 0 THEN 1 ELSE 0
                   [] kind = "Conv2D" -> IF l.d_workspace # 0 THEN 1 ELSE 0
                   [] kind = "Dropout" -> (IF l.states_ # 0 THEN 1 ELSE 0)
                                          + (IF l.m_pReserve_ # << >> THEN 1 ELSE 0)
                   [] OTHER -> 0
    IN  [NewLayer EXCEPT !.input_ = l.input_, !.grad_output_ = l.grad_output_,
                         !.batch_size_ = l.batch_size_,
                         !.resultSaveMean_ = l.resultSaveMean_,
                         !.resultSaveInvVariance_ = l.resultSaveInvVariance_,
                         !.live = l.live - freed]

\* delete layer
Destroy ==
    /\ status = "running"
    /\ layer' = destroy(layer)
    /\ status' = "destroyed"
    /\ last' = [op |-> "destroy", x |-> NullPtr, pre |-> layer, computed |-> TRUE,
                ret |-> "none", val |-> 0, hp |-> NoHp]
    /\ UNCHANGED <<config, files, nInit, nLoad, nForward, nUpdate, sameBatch>>

InitMem ==
    /\ kind \in Kinds
    /\ freeze_ = FALSE
    /\ load_pretrain_ = FALSE
    /\ gradient_stop_ = FALSE
    /\ optimizer = "sgd"
    /\ pool = {p \in Ptrs : p.id \in TensorIds}
    /\ junk \in JunkValues
    /\ writable = [w |-> TRUE, b |-> TRUE]
    /\ layer = NewLayer
    /\ files = [w |-> PretrainedWeights(WLen(kind)), b |-> PretrainedBiases(BLen(kind))]
    /\ status = "running"
    /\ nInit = 0
    /\ nLoad = 0
    /\ nForward = 0
    /\ nUpdate = 0
    /\ sameBatch = TRUE
    /\ last = NoCall
    /\ grid = NoGrid
    /\ call = NoCallStep

NextMem ==
    \/ \E x \in pool, seed \in Seeds : Forward(x, seed)
    \/ Destroy

SpecMem == InitMem /\ [][NextMem]_vars

(***************************************************************************)
(* The layer called with two tensor objects of the same shape: the caller   *)
(* passes either of them to forward and to backward.                        *)
(***************************************************************************)
InitPtr ==
    /\ kind \in Kinds
    /\ freeze_ = FALSE
    /\ load_pretrain_ = FALSE
    /\ gradient_stop_ = FALSE
    /\ optimizer = "sgd"
    /\ pool = {p \in Ptrs : p.id \in TensorIds}
    /\ junk \in JunkValues
    /\ writable = [w |-> TRUE, b |-> TRUE]
    /\ layer = NewLayer
    /\ files = [w |-> PretrainedWeights(WLen(kind)), b |-> PretrainedBiases(BLen(kind))]
    /\ status = "running"
    /\ nInit = 0
    /\ nLoad = 0
    /\ nForward = 0
    /\ nUpdate = 0
    /\ sameBatch = TRUE
    /\ last = NoCall
    /\ grid = NoGrid
    /\ call = NoCallStep

NextPtr ==
    \/ \E x \in pool, seed \in Seeds : Forward(x, seed)
    \/ \E g \in pool : Backward(g)

SpecPtr == InitPtr /\ [][NextPtr]_vars


(***************************************************************************)
(* Properties.                                                             *)
(***************************************************************************)
\* the parameter set of a layer: weights, biases and the four accumulators
Params(l) == <<l.weights_, l.biases_, l.weights_m_, l.weights_v_, l.biases_m_, l.biases_v_>>

\* the latest call was a forward call whose batch size differs from the previous one's
BatchChanged ==
    /\ last.op = "forward"
    /\ last.pre.input_ # NullPtr
    /\ last.pre.batch_size_ # last.x.n

\* the latest call was a forward call that ran the set-up branch
RanSetup == last.op = "forward" /\ (last.pre.input_ = NullPtr \/ last.pre.batch_size_ # last.x.n)

IsUpdate(op) == op \in {"update", "update_adam", "update_rmsprop"}

\* C1: a forward call whose batch size differs from that of the previous forward
\* call leaves the weights, biases and optimizer accumulators of an unfrozen
\* Dense, Conv2D or FusedBatchNorm layer with the values they had before the call.
C1_ParamsKeptOnBatchChange ==
    (BatchChanged /\ kind \in ParamKinds /\ ~freeze_) => Params(layer) = Params(last.pre)

\* C2: while every forward call on an unfrozen parameter-owning layer has had the
\* same batch size, init_weight_bias / load_parameter has run exactly once (in the
\* first call), however many forward calls were made.
C2_MaterializedOnce ==
    (kind \in ParamKinds /\ ~freeze_ /\ nForward >= 1 /\ sameBatch) => nInit + nLoad = 1

C2_Witness ==
    /\ kind \in ParamKinds /\ ~freeze_ /\ sameBatch
    /\ nForward >= 2 /\ last.op = "forward" /\ status = "running"
    /\ nInit + nLoad = 1

\* C3: after forward(x) and then backward(g), the input-gradient buffer has the
\* shape of x (the batch size of the latest forward call, InSize per sample).
C3_GradInputShape ==
    last.op = "backward" =>
        (layer.grad_input_.n = layer.batch_size_ /\ layer.grad_input_.sz = InSize)

\* the arrays [m, w] one application of the RMSProp rule gives
RmspropOnce(m, w, g, eps, lr) ==
    [m |-> [i \in 1..Len(m) |-> rmsprop_element(m[i], w[i], g[i], Decay, eps, lr).m],
     w |-> [i \in 1..Len(w) |-> rmsprop_element(m[i], w[i], g[i], Decay, eps, lr).w]]

\* C4: update_rmsprop applies the RMSProp rule once to the weights (with the weight
\* gradient and the weights' running average) and once to the biases (with the bias
\* gradient and the biases' running average).
C4_RmspropBoth ==
    (last.op = "update_rmsprop" /\ HasWeightGrad(last.pre) /\ HasBiasGrad(last.pre)) =>
        LET p == last.pre
            W == RmspropOnce(p.weights_m_, p.weights_, p.grad_weights_, last.hp.eps, last.hp.lr)
            B == RmspropOnce(p.biases_m_, p.biases_, p.grad_biases_, last.hp.eps, last.hp.lr)
        IN  /\ layer.weights_ = W.w /\ layer.weights_m_ = W.m
            /\ layer.biases_ = B.w /\ layer.biases_m_ = B.m

\* the arrays [m, v, w] one application of the Adam rule at the given step gives
AdamOnce(m, v, w, g, eps, lr, step) ==
    [m |-> [i \in 1..Len(m) |-> adam_element(step, m[i], v[i], w[i], g[i], Beta1, Beta2, eps, lr).m],
     v |-> [i \in 1..Len(v) |-> adam_element(step, m[i], v[i], w[i], g[i], Beta1, Beta2, eps, lr).v],
     w |-> [i \in 1..Len(w) |-> adam_element(step, m[i], v[i], w[i], g[i], Beta1, Beta2, eps, lr).w]]

\* C5: update_adam applies the Adam rule once to the weights with the weights'
\* moments and once to the biases with the biases' moments, both at the step
\* passed to the call.
C5_AdamBoth ==
    (last.op = "update_adam" /\ HasWeightGrad(last.pre) /\ HasBiasGrad(last.pre)) =>
        LET p == last.pre
            W == AdamOnce(p.weights_m_, p.weights_v_, p.weights_, p.grad_weights_,
                          last.hp.eps, last.hp.lr, last.hp.step)
            B == AdamOnce(p.biases_m_, p.biases_v_, p.biases_, p.grad_biases_,
                          last.hp.eps, last.hp.lr, last.hp.step)
        IN  /\ layer.weights_ = W.w /\ layer.weights_m_ = W.m /\ layer.weights_v_ = W.v
            /\ layer.biases_ = B.w /\ layer.biases_m_ = B.m /\ layer.biases_v_ = B.v

C5_Witness ==
    /\ last.op = "update_adam" /\ last.hp.step = 1
    /\ HasWeightGrad(last.pre) /\ HasBiasGrad(last.pre)
    /\ layer.weights_ # last.pre.weights_ /\ layer.biases_ # last.pre.biases_
    /\ layer.weights_m_ # layer.biases_m_

\* C6: on a frozen layer update, update_adam and update_rmsprop leave the weights,
\* biases and accumulators unchanged, gradients of an earlier backward or not.
C6_FrozenNotUpdated ==
    (freeze_ /\ IsUpdate(last.op)) => Params(layer) = Params(last.pre)

\* C7: on a frozen layer no forward call runs init_weight_bias or load_parameter,
\* whatever load_pretrain_ is, and every forward call leaves the parameter values
\* as they were (those of the fresh allocation in the call that allocates them).
C7_FrozenForward ==
    (freeze_ /\ kind \in ParamKinds) =>
        /\ nInit = 0 /\ nLoad = 0
        /\ last.op = "forward" => Params(layer) = Params(AllocParams(last.pre))

C7_Witness ==
    /\ freeze_ /\ load_pretrain_ /\ kind \in ParamKinds
    /\ BatchChanged /\ status = "running"
    /\ HasWeightGrad(layer) /\ layer.weights_ # Fill(WLen(kind), junk)

\* C8: with load_pretrain_ set on an unfrozen layer, the materialisation in forward
\* reads the weights from '<name>.bin' and the biases from '<name>.bias.bin'; if
\* either read fails the process exits in that call, the forward computation not
\* run and nothing returned.
C8_PretrainedLoad ==
    (RanSetup /\ kind \in ParamKinds /\ load_pretrain_ /\ ~freeze_) =>
        IF file_read_rc(files.w, WLen(kind)) = 0 /\ file_read_rc(files.b, BLen(kind)) = 0
        THEN /\ status = "running" /\ last.computed /\ last.ret = "blob"
             /\ layer.weights_ = files.w /\ layer.biases_ = files.b
        ELSE /\ status = "exited" /\ ~last.computed /\ last.ret = "none"

C8_Witness ==
    /\ RanSetup /\ kind \in ParamKinds /\ load_pretrain_ /\ ~freeze_
    /\ files.w # << >> /\ files.b = << >>
    /\ status = "exited" /\ layer.weights_ = files.w

\* C9: for every variant, with gradient_stop_ set backward does not write the
\* input-gradient buffer (its contents are those it had, or those of its fresh
\* allocation), and a parameter-owning variant still has its parameter gradients.
C9_GradientStop ==
    (gradient_stop_ /\ last.op = "backward") =>
        /\ layer.grad_input_ = (IF NeedsGradSetup(last.pre, last.x)
                                THEN BindGrad(last.pre, last.x) ELSE last.pre).grad_input_
        /\ kind \in ParamKinds => HasWeightGrad(layer) /\ HasBiasGrad(layer)

\* C10: get_loss and get_accuracy on a variant other than Softmax end in an error
\* (the assertion fails and the process aborts); no value reaches the caller.
C10_UnsupportedLoss ==
    (last.op \in {"get_loss", "get_accuracy"} /\ kind # "Softmax") =>
        (status = "aborted" /\ last.ret = "none")

C10_Witness ==
    /\ last.op = "get_accuracy" /\ kind = "Linear" /\ status = "aborted"
    /\ layer.output_ # NullBlob


C12_SaveStatus ==
    [][last'.op = "save_parameter" =>
          IF layer.weights_ = << >> /\ layer.biases_ = << >>
          THEN last'.val = 0 /\ files' = files
          ELSE IF ~writable.w THEN last'.val = -1 /\ files' = files
          ELSE IF ~writable.b THEN last'.val = -2 /\ files' = [files EXCEPT !.w = layer.weights_]
          ELSE last'.val = 0 /\ files' = [w |-> layer.weights_, b |-> layer.biases_]]_vars

C12_Witness ==
    /\ last.op = "save_parameter" /\ last.val = -2
    /\ layer.weights_ # << >> /\ files.w = layer.weights_
    /\ files.b # layer.biases_ /\ files.w # PretrainedWeights(WLen(kind))

\* C13: a load_parameter call that follows a successful save_parameter call on a
\* layer with materialised parameters succeeds and leaves weights and biases
\* equal to the saved ones, and forward on any input gives the output it gave
\* before the round trip.
C13_RoundTrip ==
    [][(last.op = "save_parameter" /\ last.val = 0 /\ layer.weights_ # << >>
          /\ last'.op = "load_parameter") =>
          /\ last'.val = 0
          /\ layer'.weights_ = layer.weights_ /\ layer'.biases_ = layer.biases_
          /\ \A x \in pool, seed \in Seeds :
                 forward(layer', x, seed).l.output_ = forward(layer, x, seed).l.output_]_vars

C13_Witness ==
    /\ last.op = "load_parameter" /\ last.val = 0
    /\ layer.output_ # NullBlob
    /\ files.w = layer.weights_ /\ files.b = layer.biases_
    /\ files.w # PretrainedWeights(WLen(kind)) /\ files.b # PretrainedBiases(BLen(kind))


\* C14: Softmax::backward(target) leaves in the input-gradient buffer, for every
\* element i of the prediction (the output of the latest forward call),
\* (prediction[i] - target[i]) / batch size of target.
C14_SoftmaxGradient ==
    (last.op = "backward" /\ kind = "Softmax") =>
        LET T == TargetData(last.x, PtrSz(last.x))
            P == layer.output_.d
        IN  layer.grad_input_.d = [i \in 1..Len(P) |-> TDiv(P[i] - Rd(T, i), last.x.n)]

\* a layer on which no backward call has been made: backward allocates grad_input_
NoBackwardYet(l) == l.grad_input_ = NullBlob

\* C17: update, update_adam and update_rmsprop change nothing of a parameter-free
\* layer, nor of a parameter-owning layer on which no backward call has been made.
C17_UpdateNoOp ==
    (IsUpdate(last.op) /\ (kind \notin ParamKinds \/ NoBackwardYet(last.pre))) => layer = last.pre

C17_Witness ==
    /\ last.op = "update_rmsprop" /\ kind = "Linear" /\ ~freeze_
    /\ last.pre.weights_ # << >> /\ NoBackwardYet(last.pre)
    /\ layer = last.pre

\* C18: after a forward call that ran init_weight_bias on an unfrozen parameter-
\* owning layer, every bias and every element of the four accumulators is 0 and
\* every weight w has w * w * fan_in <= 6 (w lies in [-r, r], r = sqrt(6 / fan_in)).
C18_FreshInit ==
    (RanSetup /\ kind \in ParamKinds /\ InitsFresh) =>
        /\ Len(layer.weights_) = WLen(kind) /\ Len(layer.biases_) = BLen(kind)
        /\ layer.biases_ = Fill(BLen(kind), 0)
        /\ layer.weights_m_ = Fill(WLen(kind), 0) /\ layer.weights_v_ = Fill(WLen(kind), 0)
        /\ layer.biases_m_ = Fill(BLen(kind), 0) /\ layer.biases_v_ = Fill(BLen(kind), 0)
        /\ \A i \in 1..Len(layer.weights_) : layer.weights_[i] * layer.weights_[i] * InSize <= 6

C18_Witness ==
    /\ RanSetup /\ kind = "Conv2D" /\ InitsFresh /\ junk # 0
    /\ BatchChanged
    /\ \E i \in 1..Len(layer.weights_) : layer.weights_[i] # 0
    /\ layer.biases_v_ = Fill(BLen(kind), 0)


\* the batch elements of prediction P and target T whose first largest class agrees
Hits(P, T, n) == {b \in 0..(n - 1) : RowArgMax(P, NumClasses, b) = RowArgMax(T, NumClasses, b)}

\* C15: on a prediction and a target of 10 classes per sample, Softmax::get_accuracy
\* returns the number of batch elements whose first largest class of the prediction
\* is the first largest class of the target: an integer in 0..batch size.
C15_Accuracy ==
    (last.op = "get_accuracy" /\ kind = "Softmax"
        /\ layer.output_.sz = NumClasses /\ PtrSz(last.x) = NumClasses) =>
        /\ status = "running" /\ last.ret = "hits"
        /\ last.val = Cardinality(Hits(layer.output_.d, TargetData(last.x, NumClasses), layer.output_.n))
        /\ last.val \in 0..layer.output_.n

C15_Witness ==
    /\ last.op = "get_accuracy" /\ kind = "Softmax"
    /\ layer.output_.sz = NumClasses /\ layer.output_.n = 2
    /\ last.x.id = 6 /\ last.val = 1

C19_AdamDegenerate ==
    (last.op = "adam_update" /\ last.hp.step = 0 /\ last.hp.beta1[1] = 0 /\ last.hp.beta2[1] = 0) =>
        \A i \in 1..Len(layer.weights_) :
            LET g == last.pre.grad_weights_[i]
            IN  /\ layer.weights_m_[i] = g
                /\ layer.weights_v_[i] = g * g
                /\ layer.weights_[i] - last.pre.weights_[i] = -TDiv(last.hp.lr * g, ISqrt(g * g) + last.hp.eps)

C19_Witness ==
    /\ last.op = "adam_update" /\ last.hp.step = 0 /\ last.hp.beta1[1] = 0 /\ last.hp.beta2[1] = 0
    /\ \E i \in 1..Len(layer.weights_) :
            /\ last.pre.weights_m_[i] = 3 /\ last.pre.weights_v_[i] = 4
            /\ last.pre.grad_weights_[i] = -2
            /\ layer.weights_m_[i] = -2 /\ layer.weights_v_[i] = 4
            /\ layer.weights_[i] > last.pre.weights_[i]

\* C20: one launch of rmsprop_update with decay = 1 leaves, for every element, the
\* running average m as it was and the weight changed by -lr * g / sqrt(eps + m).
C20_RmspropDegenerate ==
    (last.op = "rmsprop_update" /\ last.hp.decay[1] = last.hp.decay[2]) =>
        \A i \in 1..Len(layer.weights_) :
            LET g == last.pre.grad_weights_[i]
                m_prev == last.pre.weights_m_[i]
            IN  /\ layer.weights_m_[i] = m_prev
                /\ layer.weights_[i] - last.pre.weights_[i] = -TDiv(last.hp.lr * g, ISqrt(last.hp.eps + m_prev))

C20_Witness ==
    /\ last.op = "rmsprop_update" /\ last.hp.decay[1] = last.hp.decay[2]
    /\ \E i \in 1..Len(layer.weights_) :
            /\ last.pre.weights_m_[i] = 4 /\ last.pre.grad_weights_[i] = 3
            /\ layer.weights_m_[i] = 4
            /\ layer.weights_[i] < last.pre.weights_[i]


\* the latest call was a forward call with the batch size of the previous one
SameBatchForward ==
    /\ last.op = "forward" /\ status = "running"
    /\ last.pre.input_ # NullPtr /\ last.pre.batch_size_ = last.x.n

\* C21: a forward(x) call with the batch size of the previous call leaves the
\* output that the layer computes when its cached input pointer is x itself,
\* whichever tensor object the previous call was given.
C21_FreshInput ==
    SameBatchForward =>
        \E seed \in Seeds :
            layer.output_ = forward([last.pre EXCEPT !.input_ = last.x], last.x, seed).l.output_


\* every thread of the launch in flight has left its loop
LaunchDone == grid.launched /\ \A t \in DOMAIN grid.idx : grid.idx[t] >= grid.N

\* C22: in a launch over N elements by T threads, element i is accessed by thread
\* i mod T only and updated at most once, no element at or past N is accessed, and
\* when all threads are done every element below N has been updated exactly once
\* (the arrays are those of the whole-array kernel rule applied once).
C22_DisjointIndexes ==
    grid.launched =>
        LET T == grid.gridDim * grid.blockDim
        IN  /\ \A i \in DOMAIN grid.by :
                /\ grid.by[i] \subseteq {i % T}
                /\ grid.cnt[i] <= 1
                /\ i >= grid.N => (grid.cnt[i] = 0 /\ grid.by[i] = {})
            /\ LaunchDone =>
                /\ \A i \in 0..(grid.N - 1) : grid.cnt[i] = 1 /\ grid.by[i] = {i % T}
                /\ layer = (IF optimizer = "adam"
                            THEN adam_weights(last.pre, grid.lr, Beta1, Beta2, grid.eps, 0)
                            ELSE rmsprop_weights(last.pre, grid.lr, Decay, grid.eps))

C22_Witness ==
    /\ LaunchDone /\ grid.N = 3 /\ grid.gridDim = 2 /\ grid.blockDim = 1
    /\ grid.by[0] = {0} /\ grid.by[1] = {1} /\ grid.by[2] = {0}
    /\ layer.weights_ # last.pre.weights_


\* C23: in a call of init_weight_bias and in a call of Softmax::backward, a write
\* has been done only after cudaDeviceSynchronize has returned in that call, with
\* no earlier device work in flight; the call followed statement by statement ends
\* in the layer the whole call gives.
C23_SyncBeforeWrites ==
    /\ call.writes > 0 => (call.synced /\ call.pending = 0)
    /\ last.op \in {"init_weight_bias", "Softmax::backward"} => layer = call.expect

C23_Witness ==
    /\ last.op = "Softmax::backward" /\ call.writes = 4 /\ call.synced
    /\ layer.grad_input_ # last.pre.grad_input_
    /\ layer.grad_input_.n = 2


\* the scratch device buffers a variant owns
ScratchBuffers(k) ==
    CASE k = "Linear" -> 1 [] k = "Conv2D" -> 1 [] k = "Dropout" -> 2 [] k = "FBN" -> 4 [] OTHER -> 0

\* C24: after any forward calls a layer holds at most one live allocation per
\* scratch buffer, and after its destruction none.
C24_ScratchReleased ==
    /\ layer.live <= ScratchBuffers(kind)
    /\ status = "destroyed" => layer.live = 0


\* the algorithms, the size and the allocation of the Conv2D workspace
Workspace(l) == <<l.conv_algo_, l.workspace_size, l.d_workspace, l.nSelect>>

\* C25: a Conv2D forward call at an unchanged batch size and every Conv2D backward
\* call leave the selected algorithm, the workspace size and the workspace buffer
\* as they were; a forward call that is the first or changes the batch size runs
\* the selection once.
C25_WorkspaceFrame ==
    kind = "Conv2D" =>
        /\ (last.op = "backward" \/ (last.op = "forward" /\ ~RanSetup)) =>
               Workspace(layer) = Workspace(last.pre)
        /\ RanSetup =>
               /\ layer.nSelect = last.pre.nSelect + 1
               /\ layer.conv_algo_ = FastestAlgo(last.x.n)
               /\ layer.d_workspace = layer.workspace_size
               /\ layer.workspace_size >= WorkspaceNeed(last.x.n)

C25_Witness ==
    /\ kind = "Conv2D" /\ last.op = "forward" /\ ~RanSetup /\ last.computed
    /\ layer.nSelect = 1 /\ layer.d_workspace # 0 /\ layer.conv_algo_ = FastestAlgo(last.x.n)
    /\ Workspace(layer) = Workspace(last.pre)


\* C26: for every batch element b, Softmax::get_accuracy reads only indexes
\* b * size + i with 0 <= i < size, size being the per-sample output size: indexes
\* of row b, inside the prediction buffer and inside the target buffer.
C26_ReadsOwnRow ==
    (last.op = "get_accuracy" /\ kind = "Softmax" /\ last.computed) =>
        LET size == layer.output_.sz
        IN  \A b \in 0..(layer.output_.n - 1) :
                \A k \in ScanReads(b, size) :
                    /\ k \in (b * size)..(b * size + size - 1)
                    /\ k < Len(layer.output_.d)
                    /\ k < Len(TargetData(last.x, PtrSz(last.x)))

=============================================================================
